---- MODULE Spec2Model ----
(***************************************************************************)
(* Model of the filter-expression compiler of src/expr.c: exprTokenize and *)
(* exprCompile (shunting-yard to a postfix program with a compile-time     *)
(* stack-depth count).                                                     *)
(*                                                                         *)
(* An expression is a sequence of one-character strings; the C string's    *)
(* terminating '\0' is NUL, read at every offset >= Len(expr).  Offsets    *)
(* (es->p - es->expr, token offsets, str.start) are 0-based as in the C    *)
(* code.  Allocation (malloc, realloc, strdup) is taken to succeed.        *)
(***************************************************************************)
EXTENDS Integers, Sequences, FiniteSets, TLC

VARIABLES expr, p, syntax_error, tokens, ops_stack, program, stack_items,
          i, errpos, pc, ret

exprVars == <<expr, p, syntax_error, tokens, ops_stack, program, stack_items,
              i, errpos, pc, ret>>

\* The evaluation of a compiled filter: the attributes of the node tested
\* and the outcome.
VARIABLES attrs, result

evalVars == <<attrs, result>>

(***************************************************************************)
(* The HNSW index the harness of src/w2v.c builds (hnsw.h is included      *)
(* there; the index itself is described in the specification).  Nodes are  *)
(* named by their ids; NULL is the id 0.                                   *)
(*   level[n]          the level drawn for node n, -1 while n is no node   *)
(*   neighbors[n][l]   the neighbor list of n at level l                   *)
(*   enter_point       the entry point ("ep"), NULL with no node           *)
(*   max_level         the level of the entry point, -1 with no node       *)
(*   node_count, head  the number of live nodes; the live list, head first *)
(*   version           the writers' version counter                        *)
(*   dead[n]           the version n was marked dead at, -1 if it was not  *)
(*   freed             the nodes whose memory was released                 *)
(*   lock              the holder of the global write lock, 0 when free    *)
(*   slots[k]          read slot k: FREE or the version at acquisition     *)
(***************************************************************************)
VARIABLES level, neighbors, enter_point, max_level, node_count, head,
          version, dead, freed, lock, slots

hnswVars == <<level, neighbors, enter_point, max_level, node_count, head,
              version, dead, freed, lock, slots>>

(***************************************************************************)
(* The threads that use the index.                                         *)
(*   ipc[t], ic[t]     inserting thread t: where it stands, and its        *)
(*                     InsertContext [node, level, version, sel, l]: the   *)
(*                     node to insert, its level, the version observed,    *)
(*                     the neighbors chosen per level, and the level whose *)
(*                     back-links come next                                *)
(*   dnode             the node a delete has unlinked and not yet freed    *)
(*   rslot[r], rcur[r] searching thread r: its read slot (0 with none) and *)
(*                     the node its search stands on                       *)
(***************************************************************************)
VARIABLES ipc, ic, dnode, rslot, rcur

threadVars == <<ipc, ic, dnode, rslot, rcur>>

(***************************************************************************)
(* The NumPy blob store (NP.SET, NP.GET).                                  *)
(*   np_store[k]   the value of key k in the Redis keyspace                *)
(*   np_cmd        the command being served                                *)
(*   np_reply      the reply sent for it                                   *)
(*   np_sent[k]    what the clients gave to the last NP.SET on k           *)
(***************************************************************************)
VARIABLES np_store, np_cmd, np_reply, np_sent

npVars == <<np_store, np_cmd, np_reply, np_sent>>

(***************************************************************************)
(* The multi-threaded demo of src/w2v.c.                                   *)
(*   word2vec      the records of word2vec.bin after its header: the file  *)
(*                 as the sequence of the items an fread takes (a record   *)
(*                 is a length, a word and a vector)                       *)
(*   ctx           struct threadContext: FileAccessMutex (the holder, 0    *)
(*                 when free), numele, id, fp (the number of items read),  *)
(*                 index (the ids added with what was added, the version)  *)
(*   ti[t]         the locals of thread t in threaded_insert: pc, wlen,    *)
(*                 word, v, next_id, ic (the version the prepare observed) *)
(*   ts[t]         the locals of thread t in threaded_search: pc, slot (0  *)
(*                 when it holds none), last_id                            *)
(*   md            the --mass-del loop of w2v_single_thread: pc,           *)
(*                 initial_nodes, current, and what the loop reads of the  *)
(*                 index: head (the live list, head first) and node_count  *)
(*   main          main: pc, argv (without the program name), j (the       *)
(*                 argument looked at, from 1), the options parsed         *)
(*                 (quantization, numthreads, numele, massdel, recall),    *)
(*                 fopen (whether word2vec.bin can be opened), status (the *)
(*                 exit status once pc is "exit"; a process a signal ended *)
(*                 has pc "killed" and no status)                          *)
(***************************************************************************)
VARIABLES word2vec, ctx, ti, ts, md, main

w2vVars == <<word2vec, ctx, ti, ts, md, main>>

\* The programs around the index and the compiler.
harnessVars == <<npVars, w2vVars>>

\* What the compiler leaves alone.
nonExprVars == <<evalVars, hnswVars, threadVars, harnessVars>>

\* What an index operation of the simple API leaves alone.
nonHnswVars == <<exprVars, evalVars, threadVars, harnessVars>>

\* What a step of a thread on the index leaves alone.
nonIndexVars == <<exprVars, evalVars, harnessVars>>

\* The compiler, the evaluator, the index and its threads.
coreVars == <<exprVars, evalVars, hnswVars, threadVars>>

vars == <<exprVars, evalVars, hnswVars, threadVars, harnessVars>>

(***************************************************************************)
(* Token types and opcodes (src/expr.c:13-37).                             *)
(***************************************************************************)
EXPR_TOKEN_EOF == 0
EXPR_TOKEN_NUM == 1
EXPR_TOKEN_STR == 2
EXPR_TOKEN_TUPLE == 3
EXPR_TOKEN_SELECTOR == 4
EXPR_TOKEN_OP == 5

EXPR_OP_OPAREN == 0
EXPR_OP_CPAREN == 1
EXPR_OP_NOT == 2
EXPR_OP_POW == 3
EXPR_OP_MULT == 4
EXPR_OP_DIV == 5
EXPR_OP_MOD == 6
EXPR_OP_SUM == 7
EXPR_OP_DIFF == 8
EXPR_OP_GT == 9
EXPR_OP_GTE == 10
EXPR_OP_LT == 11
EXPR_OP_LTE == 12
EXPR_OP_EQ == 13
EXPR_OP_NEQ == 14
EXPR_OP_IN == 15
EXPR_OP_AND == 16
EXPR_OP_OR == 17

\* sizeof(num) in exprParseNumber.
NumBufSize == 64

(***************************************************************************)
(* Characters and <ctype.h> classes ("C" locale).                          *)
(***************************************************************************)
NUL == ""

CharAt(e, off) == IF off >= 0 /\ off < Len(e) THEN e[off + 1] ELSE NUL

isdigit(c) == c \in {"0", "1", "2", "3", "4", "5", "6", "7", "8", "9"}

isalpha(c) ==
    c \in {"a", "b", "c", "d", "e", "f", "g", "h", "i", "j", "k", "l", "m",
           "n", "o", "p", "q", "r", "s", "t", "u", "v", "w", "x", "y", "z",
           "A", "B", "C", "D", "E", "F", "G", "H", "I", "J", "K", "L", "M",
           "N", "O", "P", "Q", "R", "S", "T", "U", "V", "W", "X", "Y", "Z"}

isspace(c) == c \in {" ", "\t", "\n", "\r", "\f"}

\* strchr(EXPR_OP_SPECIALCHARS, c) != NULL for c != '\0'.
EXPR_OP_SPECIALCHARS ==
    {"+", "-", "*", "%", "/", "!", "(", ")", "<", ">", "=", "|", "&"}

(***************************************************************************)
(* The operator table, in the order of the source.  Note the "&& " entry:  *)
(* its name has a trailing space but its oplen is 2.                       *)
(***************************************************************************)
OpEntry(name, len, code, prec, ar) ==
    [opname |-> name, oplen |-> len, opcode |-> code, precedence |-> prec,
     arity |-> ar]

OptableWithAndLen(andlen) ==
    << OpEntry(<<"(">>, 1, EXPR_OP_OPAREN, 7, 0),
       OpEntry(<<")">>, 1, EXPR_OP_CPAREN, 7, 0),
       OpEntry(<<"!">>, 1, EXPR_OP_NOT, 6, 1),
       OpEntry(<<"n", "o", "t">>, 3, EXPR_OP_NOT, 6, 1),
       OpEntry(<<"*", "*">>, 2, EXPR_OP_POW, 5, 2),
       OpEntry(<<"*">>, 1, EXPR_OP_MULT, 4, 2),
       OpEntry(<<"/">>, 1, EXPR_OP_DIV, 4, 2),
       OpEntry(<<"%">>, 1, EXPR_OP_MOD, 4, 2),
       OpEntry(<<"+">>, 1, EXPR_OP_SUM, 3, 2),
       OpEntry(<<"-">>, 1, EXPR_OP_DIFF, 3, 2),
       OpEntry(<<">">>, 1, EXPR_OP_GT, 2, 2),
       OpEntry(<<">", "=">>, 2, EXPR_OP_GTE, 2, 2),
       OpEntry(<<"<">>, 1, EXPR_OP_LT, 2, 2),
       OpEntry(<<"<", "=">>, 2, EXPR_OP_LTE, 2, 2),
       OpEntry(<<"=", "=">>, 2, EXPR_OP_EQ, 2, 2),
       OpEntry(<<"!", "=">>, 2, EXPR_OP_NEQ, 2, 2),
       OpEntry(<<"i", "n">>, 2, EXPR_OP_IN, 2, 2),
       OpEntry(<<"a", "n", "d">>, 3, EXPR_OP_AND, 1, 2),
       OpEntry(<<"&", "&", " ">>, andlen, EXPR_OP_AND, 1, 2),
       OpEntry(<<"o", "r">>, 2, EXPR_OP_OR, 0, 2),
       OpEntry(<<"|", "|">>, 2, EXPR_OP_OR, 0, 2) >>

\* The table as a bug would have it: oplen 3 for the three-byte name "&& ".
ExprOptable_AndLen3 == OptableWithAndLen(3)

ExprOptable == OptableWithAndLen(2)

(***************************************************************************)
(* A token.  The C union keeps one payload per token type; the members     *)
(* that are not the active one are never read by the code and are held at  *)
(* 0 here.  str.start is the 0-based offset the pointer refers to.         *)
(***************************************************************************)
exprtoken(type, off, n, s, l, code) ==
    [token_type |-> type, offset |-> off, num |-> n, start |-> s, len |-> l,
     opcode |-> code]

\* What exprStackPeek returns: the last item, or NULL (<<>> here: no token).
exprStackPeek(stack) == IF Len(stack) = 0 THEN <<>> ELSE <<stack[Len(stack)]>>

RECURSIVE exprConsumeSpaces(_, _)
exprConsumeSpaces(e, off) ==
    IF CharAt(e, off) # NUL /\ isspace(CharAt(e, off))
    THEN exprConsumeSpaces(e, off + 1)
    ELSE off

(***************************************************************************)
(* exprParseNumber: copies digits (and a leading '-') into num[64], then   *)
(* strtod.  The buffer holds only an optional '-' and digits, so strtod    *)
(* consumes all of it exactly when it holds a digit; the value is the      *)
(* decimal integer (exact in a double below 2^53).                         *)
(***************************************************************************)
RECURSIVE NumScan(_, _, _)
NumScan(e, off, idx) ==
    IF isdigit(CharAt(e, off)) \/ (idx = 0 /\ CharAt(e, off) = "-")
    THEN IF idx = NumBufSize - 1
         THEN [p |-> off, idx |-> idx, toolong |-> 1]
         ELSE NumScan(e, off + 1, idx + 1)
    ELSE [p |-> off, idx |-> idx, toolong |-> 0]

DigitVal(c) ==
    CASE c = "0" -> 0 [] c = "1" -> 1 [] c = "2" -> 2 [] c = "3" -> 3
      [] c = "4" -> 4 [] c = "5" -> 5 [] c = "6" -> 6 [] c = "7" -> 7
      [] c = "8" -> 8 [] c = "9" -> 9

RECURSIVE DecVal(_)
DecVal(digits) ==
    IF digits = <<>> THEN 0
    ELSE 10 * DecVal(SubSeq(digits, 1, Len(digits) - 1))
         + DigitVal(digits[Len(digits)])

\* strtod(num, &endptr): [val, consumed] with consumed = endptr - num.
strtod(num) ==
    LET neg == Len(num) > 0 /\ num[1] = "-"
        digits == IF neg THEN Tail(num) ELSE num
    IN IF digits = <<>> THEN [val |-> 0, consumed |-> 0]
       ELSE [val |-> IF neg THEN 0 - DecVal(digits) ELSE DecVal(digits),
             consumed |-> Len(num)]

exprParseNumber(e, off, err) ==
    LET sc == NumScan(e, off, 0)
        num == SubSeq(e, off + 1, off + sc.idx)
        sd == strtod(num)
    IN [p |-> sc.p,
        cur |-> exprtoken(EXPR_TOKEN_NUM, 0, sd.val, 0, 0, 0),
        syntax_error |-> err + sc.toolong
                         + (IF sd.consumed # Len(num) THEN 1 ELSE 0)]

(***************************************************************************)
(* exprParseString: off is at the opening quote.  StrScan is the while     *)
(* loop: the offset of the closing quote, or -1 with the loop run off the  *)
(* end (es->p then rests on the '\0').                                     *)
(***************************************************************************)
\* The loop without the test for a backslash.
RECURSIVE StrScan_NoEscape(_, _, _)
StrScan_NoEscape(e, off, quote) ==
    IF CharAt(e, off) = NUL THEN -1
    ELSE IF CharAt(e, off) = quote THEN off
    ELSE StrScan_NoEscape(e, off + 1, quote)

RECURSIVE StrScan(_, _, _)
StrScan(e, off, quote) ==
    IF CharAt(e, off) = NUL THEN -1
    ELSE IF CharAt(e, off) = "\\" /\ CharAt(e, off + 1) # NUL
         THEN StrScan(e, off + 2, quote)
    ELSE IF CharAt(e, off) = quote THEN off
    ELSE StrScan(e, off + 1, quote)

\* exprParseString without the count of the unterminated string.
exprParseString_NoError(e, off, err) ==
    LET start == off + 1
        close == StrScan(e, start, CharAt(e, off))
    IN [p |-> IF close >= 0 THEN close + 1 ELSE Len(e),
        cur |-> exprtoken(EXPR_TOKEN_STR, 0, 0, start,
                          IF close >= 0 THEN close - start ELSE 0, 0),
        syntax_error |-> err]

exprParseString(e, off, err) ==
    LET quote == CharAt(e, off)
        start == off + 1
        close == StrScan(e, start, quote)
    IN IF close >= 0
       THEN [p |-> close + 1,
             cur |-> exprtoken(EXPR_TOKEN_STR, 0, 0, start, close - start, 0),
             syntax_error |-> err]
       ELSE [p |-> Len(e),
             cur |-> exprtoken(EXPR_TOKEN_STR, 0, 0, start, 0, 0),
             syntax_error |-> err + 1]

(***************************************************************************)
(* exprParseOperatorOrSelector.                                            *)
(***************************************************************************)
\* The while loop: skip letters and operator characters.
RECURSIVE OpScan(_, _)
OpScan(e, off) ==
    IF CharAt(e, off) # NUL
       /\ (isalpha(CharAt(e, off)) \/ CharAt(e, off) \in EXPR_OP_SPECIALCHARS)
    THEN OpScan(e, off + 1)
    ELSE off

\* memcmp(opname, start, oplen) == 0
memcmpEq(opname, e, start, oplen) ==
    \A k \in 1..oplen : k <= Len(opname) /\ opname[k] = CharAt(e, start + k - 1)

\* The for loop taking the first entry that matches.
RECURSIVE OpMatch_First(_, _, _, _, _)
OpMatch_First(e, start, matchlen, j, best) ==
    IF j > Len(ExprOptable) THEN best
    ELSE LET ent == ExprOptable[j]
         IN IF ent.oplen > matchlen
            THEN OpMatch_First(e, start, matchlen, j + 1, best)
            ELSE IF ~memcmpEq(ent.opname, e, start, ent.oplen)
                 THEN OpMatch_First(e, start, matchlen, j + 1, best)
            ELSE [opcode |-> ent.opcode, bestlen |-> ent.oplen]

\* The for loop over the table: [opcode, bestlen] after entries j..end.
RECURSIVE OpMatch(_, _, _, _, _)
OpMatch(e, start, matchlen, j, best) ==
    IF j > Len(ExprOptable) THEN best
    ELSE LET ent == ExprOptable[j]
         IN IF ent.oplen > matchlen THEN OpMatch(e, start, matchlen, j + 1, best)
            ELSE IF ~memcmpEq(ent.opname, e, start, ent.oplen)
                 THEN OpMatch(e, start, matchlen, j + 1, best)
            ELSE IF ent.oplen > best.bestlen
                 THEN OpMatch(e, start, matchlen, j + 1,
                              [opcode |-> ent.opcode, bestlen |-> ent.oplen])
            ELSE OpMatch(e, start, matchlen, j + 1, best)

exprParseOperatorOrSelector(e, start, err) ==
    LET selector == CharAt(e, start) = "."
        endp == OpScan(e, IF selector THEN start + 1 ELSE start)
        matchlen == endp - start
        best == OpMatch(e, start, matchlen, 1, [opcode |-> 0, bestlen |-> 0])
    IN IF selector
       THEN [p |-> endp,
             cur |-> exprtoken(EXPR_TOKEN_SELECTOR, 0, 0, start, matchlen, 0),
             syntax_error |-> err]
       ELSE IF best.bestlen = 0
            THEN [p |-> endp,
                  cur |-> exprtoken(EXPR_TOKEN_OP, 0, 0, 0, 0, 0),
                  syntax_error |-> err + 1]
            ELSE [p |-> start + best.bestlen,
                  cur |-> exprtoken(EXPR_TOKEN_OP, 0, 0, 0, 0, best.opcode),
                  syntax_error |-> err]

(***************************************************************************)
(* One iteration of the loop of exprTokenize, from offset off with the     *)
(* tokens toks so far: [p, cur, syntax_error] before the error test.       *)
(***************************************************************************)
minus_is_number(toks) ==
    LET last == exprStackPeek(toks)
    IN IF last = <<>> THEN 1
       ELSE IF last[1].token_type = EXPR_TOKEN_OP
               /\ last[1].opcode # EXPR_OP_CPAREN THEN 1
       ELSE 0

\* The loop with an operator branch that leaves the position where it was.
TokenizeOne_OperatorStays(e, off, toks, err) ==
    LET q == exprConsumeSpaces(e, off)
        c == CharAt(e, q)
    IN IF c = NUL
       THEN [p |-> q, cur |-> exprtoken(EXPR_TOKEN_EOF, 0, 0, 0, 0, 0),
             syntax_error |-> err]
       ELSE IF isdigit(c)
               \/ (minus_is_number(toks) = 1 /\ c = "-"
                   /\ isdigit(CharAt(e, q + 1)))
            THEN exprParseNumber(e, q, err)
       ELSE IF c = "\"" \/ c = "'" THEN exprParseString(e, q, err)
       ELSE IF c = "." \/ isalpha(c) \/ c \in EXPR_OP_SPECIALCHARS
            THEN [exprParseOperatorOrSelector(e, q, err) EXCEPT !.p = q]
       ELSE [p |-> q, cur |-> exprtoken(EXPR_TOKEN_EOF, 0, 0, 0, 0, 0),
             syntax_error |-> err + 1]

TokenizeOne(e, off, toks, err) ==
    LET q == exprConsumeSpaces(e, off)
        c == CharAt(e, q)
    IN IF c = NUL
       THEN [p |-> q, cur |-> exprtoken(EXPR_TOKEN_EOF, 0, 0, 0, 0, 0),
             syntax_error |-> err]
       ELSE IF isdigit(c)
               \/ (minus_is_number(toks) = 1 /\ c = "-"
                   /\ isdigit(CharAt(e, q + 1)))
            THEN exprParseNumber(e, q, err)
       ELSE IF c = "\"" \/ c = "'" THEN exprParseString(e, q, err)
       ELSE IF c = "." \/ isalpha(c) \/ c \in EXPR_OP_SPECIALCHARS
            THEN exprParseOperatorOrSelector(e, q, err)
       ELSE [p |-> q, cur |-> exprtoken(EXPR_TOKEN_EOF, 0, 0, 0, 0, 0),
             syntax_error |-> err + 1]

(***************************************************************************)
(* Table lookups: the first entry with the opcode, -1 when there is none.  *)
(***************************************************************************)
RECURSIVE OptableFind(_, _)
OptableFind(opcode, j) ==
    IF j > Len(ExprOptable) THEN 0
    ELSE IF ExprOptable[j].opcode = opcode THEN j
    ELSE OptableFind(opcode, j + 1)

\* A table in which every operator has the same precedence.
exprGetOpPrecedence_Flat(opcode) == 0

exprGetOpPrecedence(opcode) ==
    LET j == OptableFind(opcode, 1)
    IN IF j = 0 THEN -1 ELSE ExprOptable[j].precedence

\* Every operator taken to pop one value.
exprGetOpArity_One(opcode) == 1

exprGetOpArity(opcode) ==
    LET j == OptableFind(opcode, 1)
    IN IF j = 0 THEN -1 ELSE ExprOptable[j].arity

(***************************************************************************)
(* exprProcessOperator.  st is [ops_stack, program, stack_items, errpos];  *)
(* the result adds rc, the function's return value (0 success, 1 error).   *)
(***************************************************************************)
Pop(stack) == SubSeq(stack, 1, Len(stack) - 1)

OpResult(rc, ops, prog, items, ep) ==
    [rc |-> rc, ops_stack |-> ops, program |-> prog, stack_items |-> items,
     errpos |-> ep]

\* A ")" that takes the last "(" off the stack and leaves the operators
\* pushed after it where they are.
CloseParen_LeavesOps(op, ops, prog, items, ep) ==
    LET opens == { k \in 1..Len(ops) : ops[k].opcode = EXPR_OP_OPAREN }
    IN IF opens = {} THEN OpResult(1, ops, prog, items, op.offset)
       ELSE LET m == CHOOSE k \in opens : \A h \in opens : h <= k
            IN OpResult(0, SubSeq(ops, 1, m - 1) \o SubSeq(ops, m + 1, Len(ops)),
                        prog, items, ep)

\* The while loop of the EXPR_OP_CPAREN branch.
RECURSIVE CloseParen(_, _, _, _, _)
CloseParen(op, ops, prog, items, ep) ==
    IF Len(ops) = 0 THEN OpResult(1, ops, prog, items, op.offset)
    ELSE LET top_op == ops[Len(ops)]
             rest == Pop(ops)
             arity == exprGetOpArity(top_op.opcode)
         IN IF top_op.opcode = EXPR_OP_OPAREN
            THEN OpResult(0, rest, prog, items, ep)
            ELSE IF items < arity
                 THEN OpResult(1, rest, prog, items, top_op.offset)
            ELSE CloseParen(op, rest, Append(prog, top_op),
                            items - arity + 1, ep)

\* The loop stops at an operator of lower precedence than the current one.
StopsAt_LowerOrEqual(top_prec, curr_prec) == top_prec <= curr_prec

StopsAt(top_prec, curr_prec) == top_prec < curr_prec

\* The while loop "process operators with higher or equal precedence",
\* then the push of the current operator.
RECURSIVE PopHigher(_, _, _, _, _, _)
PopHigher(op, curr_prec, ops, prog, items, ep) ==
    IF Len(ops) = 0 \/ ops[Len(ops)].opcode = EXPR_OP_OPAREN
    THEN OpResult(0, Append(ops, op), prog, items, ep)
    ELSE LET top_op == ops[Len(ops)]
             top_prec == exprGetOpPrecedence(top_op.opcode)
             arity == exprGetOpArity(top_op.opcode)
         IN IF StopsAt(top_prec, curr_prec)
            THEN OpResult(0, Append(ops, op), prog, items, ep)
            ELSE IF items < arity
                 THEN OpResult(1, Pop(ops), prog, items, top_op.offset)
            ELSE PopHigher(op, curr_prec, Pop(ops), Append(prog, top_op),
                           items - arity + 1, ep)

\* A "(" that is also emitted to the program.
exprProcessOperator_EmitsParen(op, ops, prog, items, ep) ==
    IF op.opcode = EXPR_OP_OPAREN
    THEN OpResult(0, Append(ops, op), Append(prog, op), items, ep)
    ELSE IF op.opcode = EXPR_OP_CPAREN
         THEN CloseParen(op, ops, prog, items, ep)
    ELSE PopHigher(op, exprGetOpPrecedence(op.opcode), ops, prog, items, ep)

exprProcessOperator(op, ops, prog, items, ep) ==
    IF op.opcode = EXPR_OP_OPAREN
    THEN OpResult(0, Append(ops, op), prog, items, ep)
    ELSE IF op.opcode = EXPR_OP_CPAREN
         THEN CloseParen(op, ops, prog, items, ep)
    ELSE PopHigher(op, exprGetOpPrecedence(op.opcode), ops, prog, items, ep)

(***************************************************************************)
(* The expressions compiled.  Cat joins pieces of text into one string.    *)
(***************************************************************************)
RECURSIVE Cat(_)
Cat(parts) == IF parts = <<>> THEN <<>> ELSE Head(parts) \o Cat(Tail(parts))

Sp == <<" ">>

\* Longest run of pieces in a short expression.
MaxPieces == 3

Pieces ==
    { <<"1">>, <<"-">>, Sp, <<".", "a">>, <<"'">>, <<"(">>, <<")">>, <<"+">>,
      <<"*">>, <<"!">>, <<"&">>, <<"[">>, <<"o", "r">> }

\* Every string of at most MaxPieces pieces.
ShortExprs ==
    UNION { { Cat(f) : f \in [1..n -> Pieces] } : n \in 0..MaxPieces }

\* Value operands, each with the instruction it must compile to.
Item(type, n, text, code) == [t |-> type, n |-> n, s |-> text, op |-> code]

OpItem(code) == Item(EXPR_TOKEN_OP, 0, <<>>, code)

Operands ==
    { [text |-> <<"5">>, item |-> Item(EXPR_TOKEN_NUM, 5, <<>>, 0)],
      [text |-> <<".", "a">>,
       item |-> Item(EXPR_TOKEN_SELECTOR, 0, <<".", "a">>, 0)],
      [text |-> <<"'", "x", "'">>,
       item |-> Item(EXPR_TOKEN_STR, 0, <<"x">>, 0)] }

\* The spellings of the binary operators.
BinOps ==
    { [text |-> <<"*", "*">>, opcode |-> EXPR_OP_POW],
      [text |-> <<"*">>, opcode |-> EXPR_OP_MULT],
      [text |-> <<"/">>, opcode |-> EXPR_OP_DIV],
      [text |-> <<"%">>, opcode |-> EXPR_OP_MOD],
      [text |-> <<"+">>, opcode |-> EXPR_OP_SUM],
      [text |-> <<"-">>, opcode |-> EXPR_OP_DIFF],
      [text |-> <<">">>, opcode |-> EXPR_OP_GT],
      [text |-> <<">", "=">>, opcode |-> EXPR_OP_GTE],
      [text |-> <<"<">>, opcode |-> EXPR_OP_LT],
      [text |-> <<"<", "=">>, opcode |-> EXPR_OP_LTE],
      [text |-> <<"=", "=">>, opcode |-> EXPR_OP_EQ],
      [text |-> <<"!", "=">>, opcode |-> EXPR_OP_NEQ],
      [text |-> <<"i", "n">>, opcode |-> EXPR_OP_IN],
      [text |-> <<"a", "n", "d">>, opcode |-> EXPR_OP_AND],
      [text |-> <<"&", "&">>, opcode |-> EXPR_OP_AND],
      [text |-> <<"o", "r">>, opcode |-> EXPR_OP_OR],
      [text |-> <<"|", "|">>, opcode |-> EXPR_OP_OR] }

\* a p b q c, single spaces between the five; each kind of operand in
\* each place, each pair of spellings.
InfixExprs ==
    { Cat(<<a.text, Sp, o1.text, Sp, b.text, Sp, o2.text, Sp, a.text>>) :
        a \in Operands, b \in Operands, o1 \in BinOps, o2 \in BinOps }

\* Right operands of and/or, each with the instructions it must compile to.
RightOperands ==
    { [text |-> o.text, items |-> <<o.item>>] : o \in Operands }
    \cup
    { [text |-> <<"-", "2">>, items |-> <<Item(EXPR_TOKEN_NUM, -2, <<>>, 0)>>],
      [text |-> <<"(", "2", ")">>,
       items |-> <<Item(EXPR_TOKEN_NUM, 2, <<>>, 0)>>],
      [text |-> <<"!", "2">>,
       items |-> <<Item(EXPR_TOKEN_NUM, 2, <<>>, 0), OpItem(EXPR_OP_NOT)>>] }

AndOrOps == { o \in BinOps : o.opcode \in {EXPR_OP_AND, EXPR_OP_OR} }

Symbolic(o) == o.text \in { <<"&", "&">>, <<"|", "|">> }

Gaps == { <<>>, Sp }

\* a and b, a or b with single spaces; a && b, a || b with and without
\* the space on each side.
AndOrExprs ==
    { Cat(<<a.text, g1, o.text, g2, b.text>>) :
        a \in Operands, b \in RightOperands, o \in AndOrOps,
        g1 \in Gaps, g2 \in Gaps }

\* What may stand before a '-' that is followed by a digit.
MinusPrefixes ==
    { <<>>, <<"5">>, <<"'", "x", "'">>, <<".", "a">>, <<"(", "5", ")">>,
      <<"(">>, <<"!">>, <<"5", " ", "+">>, <<"5", " ", "-">>,
      <<"5", " ", "*", "*">>, <<"5", " ", "a", "n", "d">>,
      <<"5", " ", ">", "=">> }

MinusExprs == { Cat(<<pre, g, <<"-", "3">>>>) : pre \in MinusPrefixes, g \in Gaps }

\* Longest text of quotes, backslashes and letters.
MaxQuoted == 4

QuoteChars == { "'", "\"", "\\", "x" }

\* String literals, closed and not, with escapes: every text of at most
\* MaxQuoted of the characters ' " \ x.
QuotedExprs == UNION { [1..n -> QuoteChars] : n \in 1..MaxQuoted }

(***************************************************************************)
(* Arithmetic: the well-formed expressions over integer literals, + - *    *)
(* and parentheses, as syntax trees.  A tree is a literal [v] or an        *)
(* operation [op, l, r, par], par telling that it is written in            *)
(* parentheses.  The leaves are LeafValues in order of appearance.         *)
(***************************************************************************)
\* Most operators in an arithmetic expression.
MaxOps == 3

LeafValues == <<5, 2, 3, 10, 4, 7, 12, 6>>

ArithOps == { EXPR_OP_SUM, EXPR_OP_DIFF, EXPR_OP_MULT }

IsLeaf(t) == DOMAIN t = {"v"}

\* The trees with n operators whose first leaf is leaf number first.
RECURSIVE ArithTrees(_, _)
ArithTrees(n, first) ==
    IF n = 0 THEN { [v |-> LeafValues[first]] }
    ELSE UNION { { [op |-> o, l |-> a, r |-> b, par |-> f] :
                     o \in ArithOps, a \in ArithTrees(k, first),
                     b \in ArithTrees(n - 1 - k, first + k + 1),
                     f \in BOOLEAN } : k \in 0..(n - 1) }

\* Conventional binding strength: * above + and -.
ArithBinding(o) == IF o = EXPR_OP_MULT THEN 2 ELSE 1

\* The text of the tree reads back as the tree: an operand written without
\* parentheses binds at least as tightly as the operator on its right, and
\* more tightly than the operator on its left.
RECURSIVE ReadsBack(_)
ReadsBack(t) ==
    IsLeaf(t)
    \/ /\ ReadsBack(t.l) /\ ReadsBack(t.r)
       /\ (IsLeaf(t.l) \/ t.l.par
             \/ ArithBinding(t.l.op) >= ArithBinding(t.op))
       /\ (IsLeaf(t.r) \/ t.r.par
             \/ ArithBinding(t.r.op) > ArithBinding(t.op))

DigitChar(d) ==
    CASE d = 0 -> "0" [] d = 1 -> "1" [] d = 2 -> "2" [] d = 3 -> "3"
      [] d = 4 -> "4" [] d = 5 -> "5" [] d = 6 -> "6" [] d = 7 -> "7"
      [] d = 8 -> "8" [] d = 9 -> "9"

RECURSIVE Decimal(_)
Decimal(n) ==
    IF n < 10 THEN <<DigitChar(n)>>
    ELSE Decimal(n \div 10) \o <<DigitChar(n % 10)>>

ArithOpText(o) ==
    CASE o = EXPR_OP_SUM -> <<"+">> [] o = EXPR_OP_DIFF -> <<"-">>
      [] o = EXPR_OP_MULT -> <<"*">>

\* The text of a tree, gap between operands and operators.
RECURSIVE ArithText(_, _)
ArithText(t, gap) ==
    IF IsLeaf(t) THEN Decimal(t.v)
    ELSE LET body == ArithText(t.l, gap) \o gap \o ArithOpText(t.op) \o gap
                     \o ArithText(t.r, gap)
         IN IF t.par THEN <<"(">> \o body \o <<")">> ELSE body

\* The number a tree denotes.
RECURSIVE ArithValue(_)
ArithValue(t) ==
    IF IsLeaf(t) THEN t.v
    ELSE CASE t.op = EXPR_OP_SUM -> ArithValue(t.l) + ArithValue(t.r)
           [] t.op = EXPR_OP_DIFF -> ArithValue(t.l) - ArithValue(t.r)
           [] t.op = EXPR_OP_MULT -> ArithValue(t.l) * ArithValue(t.r)

\* Each expression with the number it denotes.
ArithCases ==
    { [text |-> ArithText(t, g), val |-> ArithValue(t)] :
        t \in { u \in UNION { ArithTrees(n, 1) : n \in 0..MaxOps } :
                  ReadsBack(u) },
        g \in Gaps }

ArithExprs == { c.text : c \in ArithCases }

\* Expressions the specification names.
DottedPath == <<".", "a", ".", "b">>
DottedPathEq1 == <<".", "a", ".", "b", " ", "=", "=", " ", "1">>
OneInTuple == <<"1", " ", "i", "n", " ", "[", "1", ",", "2", ",", "3", "]">>
StrInTuple ==
    <<"'", "x", "'", " ", "i", "n", " ", "[", "1", ",", "2", ",", "3", "]">>
OneInFive == <<"1", " ", "i", "n", " ", "5">>

\* Forms that are not infix, and negations of a negation.
OneTwoPlus == <<"1", " ", "2", " ", "+">>
PlusOneTwo == <<"+", " ", "1", " ", "2">>
BangBangOne == <<"!", " ", "!", " ", "1">>
NotNotOne == <<"n", "o", "t", " ", "n", "o", "t", " ", "1">>
NotParenNotOne == <<"n", "o", "t", " ", "(", "n", "o", "t", " ", "1", ")">>

\* A selector compared, with and without spaces around the operator.
YearGt1950 == <<".", "y", "e", "a", "r", ">", "1", "9", "5", "0">>
YearGt1950Spaced ==
    <<".", "y", "e", "a", "r", " ", ">", " ", "1", "9", "5", "0">>

NamedExprs ==
    { DottedPath, DottedPathEq1, OneInTuple, StrInTuple, OneInFive,
      OneTwoPlus, PlusOneTwo, BangBangOne, NotNotOne, NotParenNotOne,
      YearGt1950, YearGt1950Spaced }

\* Longest run of operator characters.
MaxRun == 3

RunChars == { ">", "=", "*", "!", "<", "-", "(", "&" }

\* Operators written one after the other with no space: 5, then every run
\* of at most MaxRun operator characters, at the end of the expression and
\* before a 3.
OpRuns == UNION { [1..n -> RunChars] : n \in 1..MaxRun }

OpRunExprs ==
    { <<"5">> \o r : r \in OpRuns } \cup { <<"5">> \o r \o <<"3">> : r \in OpRuns }

Exprs ==
    ShortExprs \cup InfixExprs \cup AndOrExprs \cup MinusExprs \cup NamedExprs
    \cup QuotedExprs \cup OpRunExprs

(***************************************************************************)
(* exprCompile as a state machine: pc is the place in the function.        *)
(*   "tokenize"  in the loop of exprTokenize                               *)
(*   "compile"   in the for loop over the tokens                           *)
(*   "flush"     in the while loop over the remaining operators            *)
(*   "verify"    at the test of stack_items                                *)
(*   "done"      returned: ret is "es" (the program) or "NULL"             *)
(* errpos is the caller's variable, 0 before the call as in main.          *)
(***************************************************************************)
\* No filter is being evaluated.
NotEvaluated == attrs = "none" /\ result = "none"

(***************************************************************************)
(* The index after hnsw_new: no node.                                      *)
(***************************************************************************)
NULL == 0

\* Most nodes inserted, and the highest level drawn.
MaxNodes == 4
MaxLevel == 1

\* Neighbor caps: M0 at the base layer, M at the upper layers.
M0 == 2
M == (M0 + 1) \div 2

\* Read slots of the epoch registry.
NumSlots == 2
Slots == 1..NumSlots
FREE == -1

Nodes == 1..MaxNodes
Levels == 0..MaxLevel

cap(l) == IF l = 0 THEN M0 ELSE M

NoLinks == [n \in Nodes |-> [l \in Levels |-> {}]]

hnsw_new ==
    /\ level = [n \in Nodes |-> -1]
    /\ neighbors = NoLinks
    /\ enter_point = NULL
    /\ max_level = -1
    /\ node_count = 0
    /\ head = <<>>
    /\ version = 0
    /\ dead = [n \in Nodes |-> -1]
    /\ freed = {}
    /\ lock = 0
    /\ slots = [k \in Slots |-> FREE]

\* The inserting threads and the searching threads; the deleting thread is
\* named after them.
Threads == {1, 2}

Readers == Slots

Deleter == Cardinality(Threads) + 1

NoNeighbors == [l \in Levels |-> <<>>]

NoCtx == [node |-> NULL, level |-> 0, version |-> 0, sel |-> NoNeighbors, l |-> 0]

\* No thread is at work.
NoThreads ==
    /\ ipc = [t \in Threads |-> "idle"]
    /\ ic = [t \in Threads |-> NoCtx]
    /\ dnode = NULL
    /\ rslot = [r \in Readers |-> 0]
    /\ rcur = [r \in Readers |-> NULL]

(***************************************************************************)
(* NP.SET and NP.GET before any command: an empty keyspace.  A value is a  *)
(* sequence of bytes; a key holds nothing or a string.                     *)
(***************************************************************************)
MaxBytes == 2

Bytes == {0, 65}

Blobs == UNION { [1..n -> Bytes] : n \in 0..MaxBytes }

KeyNames == {"arr1", "arr2"}

REDISMODULE_KEYTYPE_EMPTY == "EMPTY"
REDISMODULE_KEYTYPE_STRING == "STRING"

EmptyKey == [type |-> REDISMODULE_KEYTYPE_EMPTY, val |-> <<>>]

NeverSet == [set |-> FALSE, val |-> <<>>]

NoCommand == [name |-> "none", key |-> "none"]

NoReply == [t |-> "none", data |-> <<>>]

NoNumpy ==
    /\ np_store = [k \in KeyNames |-> EmptyKey]
    /\ np_cmd = NoCommand
    /\ np_reply = NoReply
    /\ np_sent = [k \in KeyNames |-> NeverSet]

(***************************************************************************)
(* The demo before it runs.  An item of the file is [rec, field]: field    *)
(* "wlen", "word" or "v" of record rec; NoItem is what a buffer holds      *)
(* before anything was read into it, and after an fread at the end of the  *)
(* file.                                                                   *)
(***************************************************************************)
MaxRecords == 3

MaxNumele == 2

Fields == <<"wlen", "word", "v">>

Item3(r) == << [rec |-> r, field |-> "wlen"], [rec |-> r, field |-> "word"],
              [rec |-> r, field |-> "v"] >>

RECURSIVE FileOf(_)
FileOf(n) == IF n = 0 THEN <<>> ELSE FileOf(n - 1) \o Item3(n)

NoItem == [rec |-> 0, field |-> "none"]

NoLocals ==
    [pc |-> "none", wlen |-> NoItem, word |-> NoItem, v |-> NoItem,
     next_id |-> 0, ic |-> 0]

NoMassDel ==
    [pc |-> "none", initial_nodes |-> 0, current |-> NULL, head |-> <<>>,
     node_count |-> 0]

HNSW_QUANT_NONE == "HNSW_QUANT_NONE"
HNSW_QUANT_Q8 == "HNSW_QUANT_Q8"
HNSW_QUANT_BIN == "HNSW_QUANT_BIN"

\* numele when no --numele is given.
DefaultNumele == 20000

NoMain ==
    [pc |-> "none", argv |-> <<>>, j |-> 1, quantization |-> HNSW_QUANT_NONE,
     numthreads |-> 0, numele |-> DefaultNumele, massdel |-> 0, recall |-> 0,
     fopen |-> "fp", status |-> 0]

NoSearch == [pc |-> "none", slot |-> 0, last_id |-> 0]

NoIndex == [added |-> <<>>, version |-> 0]

NoW2v ==
    /\ word2vec = <<>>
    /\ ctx = [FileAccessMutex |-> 0, numele |-> 0, id |-> 0, fp |-> 0,
              index |-> NoIndex]
    /\ ti = [t \in Threads |-> NoLocals]
    /\ ts = [t \in Threads |-> NoSearch]
    /\ md = NoMassDel
    /\ main = NoMain

\* No program around the index is running.
NoHarness == NoNumpy /\ NoW2v

CompileInit(exprs) ==
    /\ expr \in exprs
    /\ p = 0
    /\ syntax_error = 0
    /\ tokens = <<>>
    /\ ops_stack = <<>>
    /\ program = <<>>
    /\ stack_items = 0
    /\ i = 0
    /\ errpos = 0
    /\ pc = "tokenize"
    /\ ret = "pending"
    /\ NotEvaluated
    /\ hnsw_new
    /\ NoThreads
    /\ NoHarness

Init == CompileInit(Exprs)

\* The compilations of the arithmetic expressions.
InitArith == CompileInit(ArithExprs)

\* One iteration of the loop of exprTokenize; on its error return
\* exprCompile frees the state and returns NULL.
TokenizeStep ==
    /\ pc = "tokenize"
    /\ \E r \in {TokenizeOne(expr, p, tokens, syntax_error)} :
       \E token \in {[r.cur EXCEPT !.offset = r.p]} :
          /\ p' = r.p
          /\ syntax_error' = r.syntax_error
          /\ IF r.syntax_error # 0
             THEN /\ errpos' = r.p
                  /\ tokens' = tokens
                  /\ pc' = "done"
                  /\ ret' = "NULL"
             ELSE /\ errpos' = errpos
                  /\ tokens' = Append(tokens, token)
                  /\ pc' = IF r.cur.token_type = EXPR_TOKEN_EOF
                           THEN "compile" ELSE "tokenize"
                  /\ ret' = ret
    /\ UNCHANGED <<expr, ops_stack, program, stack_items, i>>
    /\ UNCHANGED nonExprVars

\* One iteration of "for (i = 0; i < es->tokens.numitems; i++)".
CompileStep ==
    /\ pc = "compile"
    /\ IF i >= Len(tokens) \/ tokens[i + 1].token_type = EXPR_TOKEN_EOF
       THEN /\ pc' = "flush"
            /\ UNCHANGED <<ops_stack, program, stack_items, i, errpos, ret>>
       ELSE LET token == tokens[i + 1]
            IN IF token.token_type \in
                     {EXPR_TOKEN_NUM, EXPR_TOKEN_STR, EXPR_TOKEN_SELECTOR}
               THEN /\ program' = Append(program, token)
                    /\ stack_items' = stack_items + 1
                    /\ i' = i + 1
                    /\ UNCHANGED <<ops_stack, errpos, pc, ret>>
               ELSE IF token.token_type = EXPR_TOKEN_OP
                    THEN \E r \in {exprProcessOperator(token, ops_stack,
                                        program, stack_items, errpos)} :
                            /\ ops_stack' = r.ops_stack
                            /\ program' = r.program
                            /\ stack_items' = r.stack_items
                            /\ errpos' = r.errpos
                            /\ IF r.rc # 0
                               THEN pc' = "done" /\ ret' = "NULL" /\ i' = i
                               ELSE pc' = pc /\ ret' = ret /\ i' = i + 1
               ELSE /\ i' = i + 1
                    /\ UNCHANGED <<ops_stack, program, stack_items, errpos,
                                   pc, ret>>
    /\ UNCHANGED <<expr, p, syntax_error, tokens>>
    /\ UNCHANGED nonExprVars

\* One iteration of "while (es->ops_stack.numitems > 0)".
FlushStep ==
    /\ pc = "flush"
    /\ IF Len(ops_stack) = 0
       THEN /\ pc' = "verify"
            /\ UNCHANGED <<ops_stack, program, stack_items, errpos, ret>>
       ELSE LET op == ops_stack[Len(ops_stack)]
                arity == exprGetOpArity(op.opcode)
            IN /\ ops_stack' = Pop(ops_stack)
               /\ IF op.opcode = EXPR_OP_OPAREN \/ stack_items < arity
                  THEN /\ errpos' = op.offset
                       /\ pc' = "done"
                       /\ ret' = "NULL"
                       /\ UNCHANGED <<program, stack_items>>
                  ELSE /\ program' = Append(program, op)
                       /\ stack_items' = stack_items - arity + 1
                       /\ UNCHANGED <<errpos, pc, ret>>
    /\ UNCHANGED <<expr, p, syntax_error, tokens, i>>
    /\ UNCHANGED nonExprVars

\* "if (stack_items != 1)" and the return.
VerifyStep ==
    /\ pc = "verify"
    /\ pc' = "done"
    /\ IF stack_items # 1
       THEN errpos' = tokens[Len(tokens)].offset /\ ret' = "NULL"
       ELSE errpos' = errpos /\ ret' = "es"
    /\ UNCHANGED <<expr, p, syntax_error, tokens, ops_stack, program,
                   stack_items, i>>
    /\ UNCHANGED nonExprVars

Next == TokenizeStep \/ CompileStep \/ FlushStep \/ VerifyStep

Spec == Init /\ [][Next]_vars

SpecArith == InitArith /\ [][Next]_vars

\* exprCompile is a sequential function: it runs until it returns.
FairCompile == WF_vars(Next)

\* The calls followed to their return: every family of inputs but the
\* five-token infix expressions, whose loops the and/or family runs too.
FairExprs == Exprs \ InfixExprs

InitFair == CompileInit(FairExprs)

SpecFair == InitFair /\ [][Next]_vars /\ FairCompile

(***************************************************************************)
(* The emitted program as instructions: a value with its content (the      *)
(* number, or the text str.start/str.len delimit), an operator with its    *)
(* opcode.  Offsets are left out.                                          *)
(***************************************************************************)
ItemOf(e, tok) ==
    IF tok.token_type = EXPR_TOKEN_NUM
    THEN Item(EXPR_TOKEN_NUM, tok.num, <<>>, 0)
    ELSE IF tok.token_type \in {EXPR_TOKEN_STR, EXPR_TOKEN_SELECTOR}
         THEN Item(tok.token_type, 0,
                   SubSeq(e, tok.start + 1, tok.start + tok.len), 0)
    ELSE Item(tok.token_type, 0, <<>>, tok.opcode)

ProgramItems == [k \in 1..Len(program) |-> ItemOf(expr, program[k])]

Compiled == pc = "done" /\ ret = "es"

Rejected == pc = "done" /\ ret = "NULL"

(***************************************************************************)
(* Evaluation of a compiled filter against the attributes of a node.       *)
(* Attributes are the JSON text stored with the node: here either not      *)
(* valid JSON, or an object, a function from keys to numbers and strings.  *)
(* VM values are [k |-> "num", n], [k |-> "str", s] and [k |-> "null"];    *)
(* [k |-> "fail"] is the evaluation that stops with an error.              *)
(***************************************************************************)
NumVal(n) == [k |-> "num", n |-> n]
StrVal(t) == [k |-> "str", s |-> t]
NullVal == [k |-> "null"]
Fail == [k |-> "fail"]

\* The characters of the strings compared, in the order of their codes.
CharOrder ==
    <<" ", "!", "\"", "#", "$", "%", "&", "'", "(", ")", "*", "+", ",",
      "-", ".", "/", "0", "1", "2", "3", "4", "5", "6", "7", "8", "9", ":",
      ";", "<", "=", ">", "?", "@", "A", "B", "C", "D", "E", "F", "G", "H",
      "I", "J", "K", "L", "M", "N", "O", "P", "Q", "R", "S", "T", "U", "V",
      "W", "X", "Y", "Z", "[", "\\", "]", "^", "_", "a", "b", "c",
      "d", "e", "f", "g", "h", "i", "j", "k", "l", "m", "n", "o", "p", "q",
      "r", "s", "t", "u", "v", "w", "x", "y", "z", "{", "|", "}", "~">>

CharCode(c) == CHOOSE j \in 1..Len(CharOrder) : CharOrder[j] = c

\* strcmp-like order of two strings: -1, 0 or 1.
RECURSIVE StrCompare(_, _)
StrCompare(a, b) ==
    IF a = <<>> THEN (IF b = <<>> THEN 0 ELSE -1)
    ELSE IF b = <<>> THEN 1
    ELSE IF CharCode(Head(a)) < CharCode(Head(b)) THEN -1
    ELSE IF CharCode(Head(a)) > CharCode(Head(b)) THEN 1
    ELSE StrCompare(Tail(a), Tail(b))

\* Coercion to bool: a non-zero number or a non-empty string.
Truthy(v) ==
    \/ v.k = "num" /\ v.n # 0
    \/ v.k = "str" /\ v.s # <<>>

BoolVal(b) == NumVal(IF b THEN 1 ELSE 0)

\* A selector whose key the object lacks makes the node a non-match; the
\* evaluation reads the key as null and goes on.
SelectorValue_Null(a, key) ==
    IF key \in DOMAIN a.fields THEN a.fields[key] ELSE NullVal

\* The value of the selector .key in the object a; a node that does not
\* have the field is not matching.
SelectorValue(a, key) ==
    IF key \in DOMAIN a.fields THEN a.fields[key] ELSE Fail

\* The operators whose results are integers, strings or null.
VMOps ==
    { EXPR_OP_NOT, EXPR_OP_MULT, EXPR_OP_SUM, EXPR_OP_DIFF, EXPR_OP_GT,
      EXPR_OP_GTE, EXPR_OP_LT, EXPR_OP_LTE, EXPR_OP_EQ, EXPR_OP_NEQ,
      EXPR_OP_IN, EXPR_OP_AND, EXPR_OP_OR }

\* + - *: numbers only, null with a null input.
Arithmetic(op, a, b) ==
    IF a.k = "null" \/ b.k = "null" THEN NullVal
    ELSE IF a.k # "num" \/ b.k # "num" THEN Fail
    ELSE CASE op = EXPR_OP_SUM -> NumVal(a.n + b.n)
           [] op = EXPR_OP_DIFF -> NumVal(a.n - b.n)
           [] op = EXPR_OP_MULT -> NumVal(a.n * b.n)

\* -1, 0, 1 for two numbers or two strings.
Compare3(a, b) ==
    IF a.k = "num"
    THEN (IF a.n < b.n THEN -1 ELSE IF a.n > b.n THEN 1 ELSE 0)
    ELSE StrCompare(a.s, b.s)

\* Comparisons: across equal types, else null.
Comparison(op, a, b) ==
    IF a.k # b.k \/ a.k \notin {"num", "str"} THEN NullVal
    ELSE LET c == Compare3(a, b)
         IN CASE op = EXPR_OP_GT -> BoolVal(c > 0)
              [] op = EXPR_OP_GTE -> BoolVal(c >= 0)
              [] op = EXPR_OP_LT -> BoolVal(c < 0)
              [] op = EXPR_OP_LTE -> BoolVal(c <= 0)
              [] op = EXPR_OP_EQ -> BoolVal(c = 0)
              [] op = EXPR_OP_NEQ -> BoolVal(c # 0)

\* One binary operator on a (below) and b (top).  "in" needs a tuple on
\* the right, and no value of a compiled program is a tuple.
Binary(op, a, b) ==
    IF op \in {EXPR_OP_SUM, EXPR_OP_DIFF, EXPR_OP_MULT}
    THEN Arithmetic(op, a, b)
    ELSE IF op = EXPR_OP_AND THEN BoolVal(Truthy(a) /\ Truthy(b))
    ELSE IF op = EXPR_OP_OR THEN BoolVal(Truthy(a) \/ Truthy(b))
    ELSE IF op = EXPR_OP_IN THEN Fail
    ELSE Comparison(op, a, b)

\* The postfix VM from instruction k: the value on top at the end, or Fail.
RECURSIVE exprRunFrom(_, _, _, _)
exprRunFrom(prog, a, k, stack) ==
    IF k > Len(prog)
    THEN IF stack = <<>> THEN Fail ELSE stack[Len(stack)]
    ELSE LET t == prog[k]
         IN IF t.t = EXPR_TOKEN_NUM
            THEN exprRunFrom(prog, a, k + 1, Append(stack, NumVal(t.n)))
            ELSE IF t.t = EXPR_TOKEN_STR
                 THEN exprRunFrom(prog, a, k + 1, Append(stack, StrVal(t.s)))
            ELSE IF t.t = EXPR_TOKEN_SELECTOR
                 THEN LET v == SelectorValue(a, Tail(t.s))
                      IN IF v.k = "fail" THEN Fail
                         ELSE exprRunFrom(prog, a, k + 1, Append(stack, v))
            ELSE IF t.op = EXPR_OP_NOT
                 THEN IF stack = <<>> THEN Fail
                      ELSE exprRunFrom(prog, a, k + 1,
                               Append(Pop(stack),
                                      BoolVal(~Truthy(stack[Len(stack)]))))
            ELSE IF Len(stack) < 2 THEN Fail
            ELSE LET v == Binary(t.op, stack[Len(stack) - 1],
                                 stack[Len(stack)])
                 IN IF v.k = "fail" THEN Fail
                    ELSE exprRunFrom(prog, a, k + 1,
                                     Append(Pop(Pop(stack)), v))

\* evaluate(program, json) -> bool: attributes that are not valid JSON and
\* evaluations that stop with an error are a non-match.
exprRun(prog, a) ==
    IF ~a.valid THEN FALSE
    ELSE LET v == exprRunFrom(prog, a, 1, <<>>)
         IN IF v.k = "fail" THEN FALSE ELSE Truthy(v)

\* The attributes tested: text that is not JSON, and objects with and
\* without the fields year and genre.
KeyYear == <<"y", "e", "a", "r">>
KeyGenre == <<"g", "e", "n", "r", "e">>
Jazz == <<"j", "a", "z", "z">>
Rock == <<"r", "o", "c", "k">>

JsonObject(f) == [valid |-> TRUE, fields |-> f]

InvalidJson == [valid |-> FALSE, fields |-> <<>>]

YearValues == { NumVal(1970), NumVal(1940), StrVal(<<"1", "9", "7", "0">>) }

GenreValues == { StrVal(Jazz), StrVal(Rock) }

EmptyObject == JsonObject([key \in {} |-> NullVal])

AttrSets ==
    { InvalidJson, EmptyObject }
    \cup { JsonObject([key \in {KeyYear} |-> y]) : y \in YearValues }
    \cup { JsonObject([key \in {KeyGenre} |-> g]) : g \in GenreValues }
    \cup { JsonObject([key \in {KeyYear, KeyGenre} |->
                          IF key = KeyYear THEN y ELSE g]) :
             y \in YearValues, g \in GenreValues }

\* The filter is run on a node's attributes: the compiled program exists
\* and its operators are among VMOps.
EvalStep ==
    /\ pc = "done" /\ ret = "es"
    /\ \A k \in 1..Len(program) :
          program[k].token_type = EXPR_TOKEN_OP => program[k].opcode \in VMOps
    /\ \E a \in AttrSets :
          /\ attrs' = a
          /\ result' = exprRun(ProgramItems, a)
    /\ pc' = "evaluated"
    /\ UNCHANGED <<expr, p, syntax_error, tokens, ops_stack, program,
                   stack_items, i, errpos, ret>>
    /\ UNCHANGED <<hnswVars, threadVars, harnessVars>>

NextEval == Next \/ EvalStep

\* Filters: comparisons of a selector or a literal with a literal or a
\* selector, their negations, and pairs of a year test and a genre test
\* joined by and, && and or.
SelYear == <<".">> \o KeyYear
SelGenre == <<".">> \o KeyGenre
Quoted(t) == <<"'">> \o t \o <<"'">>

CmpLeft == { SelYear, SelGenre, <<"1", "9", "7", "0">>,
             SelYear \o <<" ", "+", " ", "1", "0">> }

CmpOps == { <<">">>, <<"<", "=">>, <<"=", "=">>, <<"!", "=">>, <<"i", "n">> }

CmpRight == { <<"1", "9", "5", "0">>, Quoted(Jazz), SelYear }

Comparisons ==
    { Cat(<<l, Sp, o, Sp, r>>) : l \in CmpLeft, o \in CmpOps, r \in CmpRight }

YearTests ==
    { Cat(<<SelYear, Sp, o, Sp, <<"1", "9", "5", "0">>>>) : o \in CmpOps }

GenreTests ==
    { Cat(<<SelGenre, Sp, o, Sp, Quoted(Jazz)>>) : o \in CmpOps }

Connectives == { <<"a", "n", "d">>, <<"&", "&">>, <<"o", "r">> }

\* .year > 1950 and .genre == 'jazz'
YearAndGenre ==
    Cat(<<SelYear, <<" ", ">", " ", "1", "9", "5", "0", " ", "a", "n", "d", " ">>,
          SelGenre, <<" ", "=", "=", " ">>, Quoted(Jazz)>>)

FilterExprs ==
    Comparisons
    \cup { <<"!", " ", "(">> \o c \o <<")">> : c \in Comparisons }
    \cup { Cat(<<a, Sp, o, Sp, b>>) :
             a \in YearTests, o \in Connectives, b \in GenreTests }
    \cup { SelYear, <<"!">> \o SelGenre, YearAndGenre }

InitEval == CompileInit(FilterExprs)

SpecEval == InitEval /\ [][NextEval]_vars

(***************************************************************************)
(* The HNSW graph engine.  The graph operations are functions of a graph   *)
(* g, the record of the index's fields.                                    *)
(***************************************************************************)
Graph ==
    [level |-> level, neighbors |-> neighbors, enter_point |-> enter_point,
     max_level |-> max_level, node_count |-> node_count, head |-> head,
     version |-> version, dead |-> dead]

SetGraph(g) ==
    /\ level' = g.level
    /\ neighbors' = g.neighbors
    /\ enter_point' = g.enter_point
    /\ max_level' = g.max_level
    /\ node_count' = g.node_count
    /\ head' = g.head
    /\ version' = g.version
    /\ dead' = g.dead

Range(f) == { f[k] : k \in DOMAIN f }

Min(a, b) == IF a < b THEN a ELSE b

\* The vectors of the nodes, and the distance kernel on them.
Vec ==
    << <<0, 0>>, <<1, 2>>, <<3, 3>>, <<0, 3>>, <<2, 0>>, <<4, 1>>, <<2, 5>>,
       <<5, 4>> >>

Dist(a, b) ==
    (Vec[a][1] - Vec[b][1]) * (Vec[a][1] - Vec[b][1])
    + (Vec[a][2] - Vec[b][2]) * (Vec[a][2] - Vec[b][2])

\* a comes before b by distance to q; equal distances by id ascending.
Closer(q, a, b) ==
    Dist(a, q) < Dist(b, q) \/ (Dist(a, q) = Dist(b, q) /\ a < b)

Nearest(q, S) == CHOOSE a \in S : \A b \in S \ {a} : Closer(q, a, b)

RECURSIVE SortByDist(_, _)
SortByDist(q, S) ==
    IF S = {} THEN <<>>
    ELSE <<Nearest(q, S)>> \o SortByDist(q, S \ {Nearest(q, S)})

\* The heuristic selector on the candidates cands (sorted by distance to
\* q): c is accepted unless an accepted c2 has dist(c, c2) < dist(c, q);
\* at most limit are accepted.
RECURSIVE SelectHeuristic(_, _, _, _)
SelectHeuristic(q, cands, limit, accepted) ==
    IF cands = <<>> \/ Len(accepted) >= limit THEN accepted
    ELSE LET c == Head(cands)
         IN IF \E k \in 1..Len(accepted) : Dist(c, accepted[k]) < Dist(c, q)
            THEN SelectHeuristic(q, Tail(cands), limit, accepted)
            ELSE SelectHeuristic(q, Tail(cands), limit, Append(accepted, c))

\* The nodes reached from the nodes S along the links of level l: what the
\* candidate search finds with ef no smaller than the number of nodes.
RECURSIVE Reach(_, _, _)
Reach(nb, l, S) ==
    LET T == S \cup UNION { nb[x][l] : x \in S }
    IN IF T = S THEN S ELSE Reach(nb, l, T)

\* Greedy step at level l to the locally nearest node.
RECURSIVE GreedyAt(_, _, _, _)
GreedyAt(nb, q, cur, l) ==
    LET best == Nearest(q, {cur} \cup nb[cur][l])
    IN IF best = cur THEN cur ELSE GreedyAt(nb, q, best, l)

\* Greedy descent from level l down to level stop + 1.
RECURSIVE Descend(_, _, _, _, _)
Descend(nb, q, cur, l, stop) ==
    IF l <= stop THEN cur
    ELSE Descend(nb, q, GreedyAt(nb, q, cur, l), l - 1, stop)

\* Steps 4 and 5 of insert without the linking: the neighbors chosen for
\* the new node n at each level, [l -> sequence of nodes].
RECURSIVE SelectAt(_, _, _, _, _)
SelectAt(nb, n, cur, l, acc) ==
    IF l < 0 THEN acc
    ELSE LET sorted == SortByDist(n, Reach(nb, l, {cur}))
         IN SelectAt(nb, n, Head(sorted), l - 1,
                     [acc EXCEPT ![l] = SelectHeuristic(n, sorted, cap(l), <<>>)])

SelectNeighbors(g, n, lvl) ==
    IF g.enter_point = NULL THEN NoNeighbors
    ELSE LET top == Min(lvl, g.max_level)
         IN SelectAt(g.neighbors, n,
                     Descend(g.neighbors, n, g.enter_point, g.max_level, top),
                     top, NoNeighbors)

\* The links v-w of level l taken away in one direction only.
RemoveLinks_OneWay(nb, v, W, l) == [nb EXCEPT ![v][l] = @ \ W]

\* The links v-w, w in W, of level l taken away on both sides.
RemoveLinks(nb, v, W, l) ==
    [x \in Nodes |->
        [k \in Levels |->
            IF k # l THEN nb[x][k]
            ELSE IF x = v THEN nb[x][k] \ W
            ELSE IF x \in W THEN nb[x][k] \ {v}
            ELSE nb[x][k]]]

\* A list is never shortened.
PruneNode_Never(nb, v, l) == nb

\* Step 6 for the neighbor v: a list above the cap is reduced by the
\* heuristic selector, the pruned links removed on both sides.
PruneNode(nb, v, l) ==
    IF Cardinality(nb[v][l]) <= cap(l) THEN nb
    ELSE LET keep == SelectHeuristic(v, SortByDist(v, nb[v][l]), cap(l), <<>>)
         IN RemoveLinks(nb, v, nb[v][l] \ Range(keep), l)

RECURSIVE PruneAll(_, _, _)
PruneAll(nb, vs, l) ==
    IF vs = <<>> THEN nb
    ELSE PruneAll(PruneNode(nb, Head(vs), l), Tail(vs), l)

\* The new node's own lists: its links to the neighbors chosen.
OutLinks(nb, n, sel) == [nb EXCEPT ![n] = [l \in Levels |-> Range(sel[l])]]

\* The back-links of level l from the neighbors chosen to n, followed by
\* the pruning of their lists.
BackLinksAt(nb, n, sel, l) ==
    LET linked == [x \in Nodes |->
                      [k \in Levels |->
                          IF k = l /\ x \in Range(sel[l])
                          THEN nb[x][k] \cup {n} ELSE nb[x][k]]]
    IN PruneAll(linked, sel[l], l)

\* The back-links level by level, from level l down.
RECURSIVE BackLinks(_, _, _, _)
BackLinks(nb, n, sel, l) ==
    IF l < 0 THEN nb
    ELSE BackLinks(BackLinksAt(nb, n, sel, l), n, sel, l - 1)

\* Steps 7 and 8: the entry point is raised, the node spliced at the head
\* of the live list; the commit is a new version.
Publish(g, n, lvl) ==
    [g EXCEPT !.enter_point = IF lvl > g.max_level THEN n ELSE @,
              !.max_level = IF lvl > g.max_level THEN lvl ELSE @,
              !.head = <<n>> \o @,
              !.node_count = @ + 1,
              !.version = @ + 1]

\* insert with the neighbors sel chosen.
CommitInsert(g, n, lvl, sel) ==
    Publish([g EXCEPT !.level[n] = lvl,
                      !.neighbors = BackLinks(OutLinks(g.neighbors, n, sel),
                                              n, sel, MaxLevel)],
            n, lvl)

InsertNode(g, n, lvl) == CommitInsert(g, n, lvl, SelectNeighbors(g, n, lvl))

\* The pairs of ex-neighbors of a deleted node, nearest pair first.
PairDist(pr) == Dist(pr[1], pr[2])

PairBefore(a, b) ==
    \/ PairDist(a) < PairDist(b)
    \/ PairDist(a) = PairDist(b) /\ a[1] < b[1]
    \/ PairDist(a) = PairDist(b) /\ a[1] = b[1] /\ a[2] < b[2]

RECURSIVE SortPairs(_)
SortPairs(P) ==
    IF P = {} THEN <<>>
    ELSE LET m == CHOOSE a \in P : \A b \in P \ {a} : PairBefore(a, b)
         IN <<m>> \o SortPairs(P \ {m})

\* The relink step: a and b are linked when both stay within the cap and
\* the link improves connectivity (b is not reached from a).
RECURSIVE Relink(_, _, _)
Relink(nb, pairs, l) ==
    IF pairs = <<>> THEN nb
    ELSE LET a == Head(pairs)[1]
             b == Head(pairs)[2]
         IN IF /\ Cardinality(nb[a][l]) < cap(l)
               /\ Cardinality(nb[b][l]) < cap(l)
               /\ b \notin Reach(nb, l, {a})
            THEN Relink([nb EXCEPT ![a][l] = @ \cup {b}, ![b][l] = @ \cup {a}],
                        Tail(pairs), l)
            ELSE Relink(nb, Tail(pairs), l)

\* Step 2 of delete, level by level: the back-links to n are removed and
\* the ex-neighbors relinked.  The lists of n itself are left as they are.
RECURSIVE Unlink(_, _, _, _)
Unlink(nb, n, lists, l) ==
    IF l < 0 THEN nb
    ELSE LET N == lists[l]
             cut == [x \in Nodes |->
                        [k \in Levels |->
                            IF k = l /\ x \in N THEN nb[x][k] \ {n}
                            ELSE nb[x][k]]]
             pairs == SortPairs({ pr \in N \X N : pr[1] < pr[2] })
         IN Unlink(Relink(cut, pairs, l), n, lists, l - 1)

Live(g) == Range(g.head)

\* Any surviving node.
Highest_Any(g, n) == Live(g) \ {n}

\* The surviving nodes of the highest level, the candidates for the entry
\* point when n is deleted.
Highest(g, n) ==
    { e \in Live(g) \ {n} :
        \A m \in Live(g) \ {n} : g.level[m] <= g.level[e] }

\* max_level after the entry point moved to e: decremented to the level at
\* which nodes remain.
LoweredLevel(g, e) == g.level[e]

\* delete(n), e the new entry point when n is the entry point (NULL when
\* no node survives).
DeleteNode(g, n, e) ==
    LET isEp == g.enter_point = n
    IN [g EXCEPT
          !.neighbors = Unlink(g.neighbors, n, g.neighbors[n], MaxLevel),
          !.enter_point = IF isEp THEN e ELSE @,
          !.max_level = IF ~isEp THEN @
                        ELSE IF e = NULL THEN -1
                        ELSE IF g.level[e] = g.max_level THEN @
                        ELSE LoweredLevel(g, e),
          !.head = SelectSeq(@, LAMBDA x : x # n),
          !.node_count = @ - 1,
          !.dead[n] = g.version,
          !.version = @ + 1]

\* The slots are not looked at.
SlotsPast_Ignored(v) == TRUE

\* Epoch reclamation: every occupied slot holds a version above v.
SlotsPast(v) == \A k \in Slots : slots[k] = FREE \/ slots[k] > v

(***************************************************************************)
(* The single-threaded use of the index: hnsw_insert and hnsw_delete_node  *)
(* hold the write lock for their whole duration.  hnsw_delete_node waits   *)
(* for the read slots to pass the version the node died at and frees the   *)
(* node; no slot is held in a single thread.                               *)
(***************************************************************************)
hnsw_insert(n, lvl) ==
    /\ lock = 0
    /\ level[n] = -1
    /\ SetGraph(InsertNode(Graph, n, lvl))
    /\ UNCHANGED <<freed, lock, slots>>
    /\ UNCHANGED nonHnswVars

hnsw_delete_node(n) ==
    /\ lock = 0
    /\ n \in Live(Graph)
    /\ \E e \in (IF Highest(Graph, n) = {} THEN {NULL} ELSE Highest(Graph, n)) :
          SetGraph(DeleteNode(Graph, n, e))
    /\ SlotsPast(version)
    /\ freed' = freed \cup {n}
    /\ UNCHANGED <<lock, slots>>
    /\ UNCHANGED nonHnswVars

\* The harness numbers the words as it reads them (id++): the next node is
\* the one after the nodes inserted so far, while words remain.
id ==
    Cardinality({ n \in Nodes :
                    level[n] # -1 \/ \E t \in Threads : ic[t].node = n })

InsertStep ==
    /\ id < MaxNodes
    /\ \E lvl \in Levels : hnsw_insert(id + 1, lvl)

DeleteStep == \E n \in Nodes : hnsw_delete_node(n)

\* No expression is being compiled.
NoCompile ==
    /\ expr = <<>> /\ p = 0 /\ syntax_error = 0 /\ tokens = <<>>
    /\ ops_stack = <<>> /\ program = <<>> /\ stack_items = 0 /\ i = 0
    /\ errpos = 0 /\ pc = "none" /\ ret = "none"

\* Nothing but the index is in use.
NoCore == NoCompile /\ NotEvaluated /\ NoThreads

InitGraph == NoCore /\ hnsw_new /\ NoHarness

NextGraph == InsertStep \/ DeleteStep

SpecGraph == InitGraph /\ [][NextGraph]_vars

(***************************************************************************)
(* Searching threads and a deleting thread (threaded_search of src/w2v.c:  *)
(* acquire a read slot, search, release it).  A search stands on the entry *)
(* point and then follows links; it never takes the write lock.  The       *)
(* delete holds the write lock from the unlinking to the free, which waits *)
(* for the read slots.                                                     *)
(***************************************************************************)
FreeSlots == { k \in Slots : slots[k] = FREE }

\* The first free slot of the array.
FirstFree == CHOOSE k \in FreeSlots : \A j \in FreeSlots : k <= j

hnsw_acquire_read_slot(r) ==
    /\ rslot[r] = 0
    /\ FreeSlots # {}
    /\ slots' = [slots EXCEPT ![FirstFree] = version]
    /\ rslot' = [rslot EXCEPT ![r] = FirstFree]
    /\ UNCHANGED <<level, neighbors, enter_point, max_level, node_count, head,
                   version, dead, freed, lock>>
    /\ UNCHANGED <<ipc, ic, dnode, rcur>>
    /\ UNCHANGED nonIndexVars

\* hnsw_search reads the entry point.
SearchEnter(r) ==
    /\ rslot[r] # 0
    /\ rcur[r] = NULL
    /\ enter_point # NULL
    /\ rcur' = [rcur EXCEPT ![r] = enter_point]
    /\ UNCHANGED <<hnswVars, ipc, ic, dnode, rslot>>
    /\ UNCHANGED nonIndexVars

\* hnsw_search reads the neighbor lists of the node it stands on and moves
\* to one of the neighbors.  The node is memory the search reads: the step
\* is defined for a node that was not freed.
SearchStep(r) ==
    /\ rslot[r] # 0
    /\ rcur[r] # NULL
    /\ rcur[r] \notin freed
    /\ \E l \in Levels : \E m \in neighbors[rcur[r]][l] :
          rcur' = [rcur EXCEPT ![r] = m]
    /\ UNCHANGED <<hnswVars, ipc, ic, dnode, rslot>>
    /\ UNCHANGED nonIndexVars

hnsw_release_read_slot(r) ==
    /\ rslot[r] # 0
    /\ slots' = [slots EXCEPT ![rslot[r]] = FREE]
    /\ rslot' = [rslot EXCEPT ![r] = 0]
    /\ rcur' = [rcur EXCEPT ![r] = NULL]
    /\ UNCHANGED <<level, neighbors, enter_point, max_level, node_count, head,
                   version, dead, freed, lock>>
    /\ UNCHANGED <<ipc, ic, dnode>>
    /\ UNCHANGED nonIndexVars

\* delete steps 1 to 4: under the write lock the node is unlinked and marked
\* dead with the current version.
DeleteUnlink(n) ==
    /\ lock = 0
    /\ n \in Live(Graph)
    /\ \E e \in (IF Highest(Graph, n) = {} THEN {NULL} ELSE Highest(Graph, n)) :
          SetGraph(DeleteNode(Graph, n, e))
    /\ lock' = Deleter
    /\ dnode' = n
    /\ UNCHANGED <<freed, slots, ipc, ic, rslot, rcur>>
    /\ UNCHANGED nonIndexVars

\* The deferred free: once the read slots have passed the version the node
\* died at, its memory is released and the write lock given up.
DeleteFree ==
    /\ lock = Deleter
    /\ dnode # NULL
    /\ SlotsPast(dead[dnode])
    /\ freed' = freed \cup {dnode}
    /\ lock' = 0
    /\ dnode' = NULL
    /\ UNCHANGED <<level, neighbors, enter_point, max_level, node_count, head,
                   version, dead, slots>>
    /\ UNCHANGED <<ipc, ic, rslot, rcur>>
    /\ UNCHANGED nonIndexVars

AcquireStep == \E r \in Readers : hnsw_acquire_read_slot(r)

SearchEnterStep == \E r \in Readers : SearchEnter(r)

SearchStepStep == \E r \in Readers : SearchStep(r)

ReleaseStep == \E r \in Readers : hnsw_release_read_slot(r)

DeleteUnlinkStep == \E n \in Nodes : DeleteUnlink(n)

NextReclaim ==
    \/ InsertStep
    \/ DeleteUnlinkStep
    \/ DeleteFree
    \/ AcquireStep
    \/ SearchEnterStep
    \/ SearchStepStep
    \/ ReleaseStep

SpecReclaim == InitGraph /\ [][NextReclaim]_vars

(***************************************************************************)
(* Inserting threads (threaded_insert of src/w2v.c): hnsw_prepare_insert   *)
(* without the write lock, hnsw_try_commit_insert, and on a conflict       *)
(* hnsw_insert.  The commit is made of the steps a search can fall         *)
(* between: the new node's own lists, the back-links level by level, the   *)
(* publication.  Deletes take the write lock for their whole duration.     *)
(***************************************************************************)
\* Every prepared insert is taken for unchanged.
Unchanged_Always(c) == TRUE

\* The check of try_commit_insert: the version is the one observed, and
\* the neighbors observed are live at their levels.
Unchanged(c) ==
    /\ version = c.version
    /\ \A l \in Levels : \A m \in Range(c.sel[l]) :
          m \in Live(Graph) /\ level[m] >= l

hnsw_prepare_insert(t) ==
    /\ ipc[t] = "idle"
    /\ id < MaxNodes
    /\ \E lvl \in Levels :
          ic' = [ic EXCEPT ![t] =
                    [node |-> id + 1, level |-> lvl, version |-> version,
                     sel |-> SelectNeighbors(Graph, id + 1, lvl), l |-> MaxLevel]]
    /\ ipc' = [ipc EXCEPT ![t] = "prepared"]
    /\ UNCHANGED <<hnswVars, dnode, rslot, rcur>>
    /\ UNCHANGED nonIndexVars

\* Takes the write lock and checks: the commit goes on with the lock held,
\* a conflict gives the lock back and returns NULL.
hnsw_try_commit_insert(t) ==
    /\ ipc[t] = "prepared"
    /\ lock = 0
    /\ IF Unchanged(ic[t])
       THEN lock' = t /\ ipc' = [ipc EXCEPT ![t] = "commit"]
       ELSE lock' = 0 /\ ipc' = [ipc EXCEPT ![t] = "fallback"]
    /\ UNCHANGED <<level, neighbors, enter_point, max_level, node_count, head,
                   version, dead, freed, slots>>
    /\ UNCHANGED <<ic, dnode, rslot, rcur>>
    /\ UNCHANGED nonIndexVars

\* hnsw_insert after a conflict: the scan is made again, under the lock.
LockedInsert(t) ==
    /\ ipc[t] = "fallback"
    /\ lock = 0
    /\ lock' = t
    /\ \E lvl \in Levels :
          ic' = [ic EXCEPT ![t] =
                    [node |-> ic[t].node, level |-> lvl, version |-> version,
                     sel |-> SelectNeighbors(Graph, ic[t].node, lvl),
                     l |-> MaxLevel]]
    /\ ipc' = [ipc EXCEPT ![t] = "commit"]
    /\ UNCHANGED <<level, neighbors, enter_point, max_level, node_count, head,
                   version, dead, freed, slots>>
    /\ UNCHANGED <<dnode, rslot, rcur>>
    /\ UNCHANGED nonIndexVars

\* The new node's own lists are never written.
OwnLinks_None(nb, n, sel) == nb

\* The first writes of the commit: the new node's own lists.
OwnLinks(nb, n, sel) == OutLinks(nb, n, sel)

CommitOwnLinks(t) ==
    /\ ipc[t] = "commit"
    /\ level' = [level EXCEPT ![ic[t].node] = ic[t].level]
    /\ neighbors' = OwnLinks(neighbors, ic[t].node, ic[t].sel)
    /\ ipc' = [ipc EXCEPT ![t] = "backlinks"]
    /\ UNCHANGED <<enter_point, max_level, node_count, head, version, dead,
                   freed, lock, slots>>
    /\ UNCHANGED <<ic, dnode, rslot, rcur>>
    /\ UNCHANGED nonIndexVars

CommitBackLinks(t) ==
    /\ ipc[t] = "backlinks"
    /\ ic[t].l >= 0
    /\ neighbors' = BackLinksAt(neighbors, ic[t].node, ic[t].sel, ic[t].l)
    /\ ic' = [ic EXCEPT ![t].l = @ - 1]
    /\ UNCHANGED <<level, enter_point, max_level, node_count, head, version,
                   dead, freed, lock, slots>>
    /\ UNCHANGED <<ipc, dnode, rslot, rcur>>
    /\ UNCHANGED nonIndexVars

CommitPublish(t) ==
    /\ ipc[t] = "backlinks"
    /\ ic[t].l < 0
    /\ SetGraph(Publish(Graph, ic[t].node, ic[t].level))
    /\ lock' = 0
    /\ ipc' = [ipc EXCEPT ![t] = "idle"]
    /\ ic' = [ic EXCEPT ![t] = NoCtx]
    /\ UNCHANGED <<freed, slots, dnode, rslot, rcur>>
    /\ UNCHANGED nonIndexVars

PrepareStep == \E t \in Threads : hnsw_prepare_insert(t)

TryCommitStep == \E t \in Threads : hnsw_try_commit_insert(t)

LockedInsertStep == \E t \in Threads : LockedInsert(t)

CommitOwnLinksStep == \E t \in Threads : CommitOwnLinks(t)

CommitBackLinksStep == \E t \in Threads : CommitBackLinks(t)

CommitPublishStep == \E t \in Threads : CommitPublish(t)

NextCommit ==
    \/ PrepareStep
    \/ TryCommitStep
    \/ LockedInsertStep
    \/ CommitOwnLinksStep
    \/ CommitBackLinksStep
    \/ CommitPublishStep
    \/ DeleteStep

SpecCommit == InitGraph /\ [][NextCommit]_vars

(***************************************************************************)
(* The NumPy module (src/unnamed/part_001): NP.SET stores the bytes of its *)
(* second argument as the string value of the key, NP.GET replies with the *)
(* bytes of the value, or Null for a key that holds nothing.               *)
(***************************************************************************)
SimpleString(str) == [t |-> "simple", data |-> str]

Null == [t |-> "null", data |-> <<>>]

\* RedisModule_ReplyWithStringBuffer(ctx, data, len): len bytes from data.
ReplyWithStringBuffer(data, len) == [t |-> "bulk", data |-> SubSeq(data, 1, len)]

\* RedisModule_StringSet(key, str): the key holds the string.
StringSet(store, k, str) ==
    [store EXCEPT ![k] = [type |-> REDISMODULE_KEYTYPE_STRING, val |-> str]]

\* The bytes up to the first zero byte, as strlen measures them.
RECURSIVE CStringLen(_)
CStringLen(data) ==
    IF data = <<>> \/ Head(data) = 0 THEN 0 ELSE 1 + CStringLen(Tail(data))

\* The reply built from the value as a C string.
NumpyGetReply_CString(v) == ReplyWithStringBuffer(v.val, CStringLen(v.val))

\* The reply of NP.GET for a key whose value is v.
NumpyGetReply(v) ==
    IF v.type = REDISMODULE_KEYTYPE_EMPTY THEN Null
    ELSE ReplyWithStringBuffer(v.val, Len(v.val))

NumpySet_RedisCommand(k, data) ==
    /\ np_cmd' = [name |-> "NP.SET", key |-> k]
    /\ np_store' = StringSet(np_store, k, data)
    /\ np_reply' = SimpleString(<<"O", "K">>)
    /\ np_sent' = [np_sent EXCEPT ![k] = [set |-> TRUE, val |-> data]]
    /\ UNCHANGED <<coreVars, w2vVars>>

NumpyGet_RedisCommand(k) ==
    /\ np_cmd' = [name |-> "NP.GET", key |-> k]
    /\ np_reply' = NumpyGetReply(np_store[k])
    /\ UNCHANGED <<np_store, np_sent>>
    /\ UNCHANGED <<coreVars, w2vVars>>

NumpySetStep == \E k \in KeyNames : \E data \in Blobs : NumpySet_RedisCommand(k, data)

NumpyGetStep == \E k \in KeyNames : NumpyGet_RedisCommand(k)

InitNumpy == NoCore /\ hnsw_new /\ NoNumpy /\ NoW2v

NextNumpy == NumpySetStep \/ NumpyGetStep

SpecNumpy == InitNumpy /\ [][NextNumpy]_vars

(***************************************************************************)
(* threaded_insert of src/w2v.c: the threads that load word2vec.bin into   *)
(* one index.  A step is one call that touches what the threads share: the *)
(* mutex, the file, ctx->id and the index.  The index is the one of the    *)
(* insert calls above seen from their caller: what was added, and the      *)
(* version a prepared insert is checked against.                           *)
(***************************************************************************)
\* fread: the item at the file position, and whether there was one.
AtEOF == ctx.fp >= Len(word2vec)

fread(buf) == IF AtEOF THEN buf ELSE word2vec[ctx.fp + 1]

Advance == IF AtEOF THEN ctx.fp ELSE ctx.fp + 1

\* What the index is given for one record.
Element(t, how) ==
    [id |-> ti[t].next_id, word |-> ti[t].word, v |-> ti[t].v, by |-> how]

Added(index, e) ==
    [added |-> Append(index.added, e), version |-> index.version + 1]

\* hnsw_try_commit_insert as its caller sees it: the node, or NULL when the
\* index changed since the prepare.
TryCommitInsert(index, seen, e) ==
    IF index.version = seen
    THEN [index |-> Added(index, e), node |-> "node"]
    ELSE [index |-> index, node |-> "NULL"]

AfterTryCommit_Insert(node) == "hnsw_insert"

\* if (hnsw_try_commit_insert(...) == NULL) hnsw_insert(...);
AfterTryCommit(node) == IF node = "NULL" THEN "hnsw_insert" ELSE "check"

\* if (next_id >= ctx->numele) break;
AfterInsert(next_id) == IF next_id >= ctx.numele THEN "return" ELSE "lock"

InsertLock(t) ==
    /\ ti[t].pc = "lock"
    /\ ctx.FileAccessMutex = 0
    /\ ctx' = [ctx EXCEPT !.FileAccessMutex = t]
    /\ ti' = [ti EXCEPT ![t].pc = "fread_wlen"]
    /\ UNCHANGED <<md, main, word2vec, ts, coreVars, npVars>>

\* if (fread(&wlen,2,1,ctx->fp) == 0) break;
InsertReadLen(t) ==
    /\ ti[t].pc = "fread_wlen"
    /\ IF AtEOF
       THEN /\ ti' = [ti EXCEPT ![t].pc = "return"]
            /\ UNCHANGED ctx
       ELSE /\ ti' = [ti EXCEPT ![t].pc = "unlock",
                                ![t].wlen = fread(ti[t].wlen)]
            /\ ctx' = [ctx EXCEPT !.fp = Advance]
    /\ UNCHANGED <<md, main, word2vec, ts, coreVars, npVars>>

InsertUnlock(t) ==
    /\ ti[t].pc = "unlock"
    /\ ctx' = [ctx EXCEPT !.FileAccessMutex = 0]
    /\ ti' = [ti EXCEPT ![t].pc = "fread_word"]
    /\ UNCHANGED <<md, main, word2vec, ts, coreVars, npVars>>

\* word = malloc(wlen+1); fread(word,wlen,1,ctx->fp);
InsertReadWord(t) ==
    /\ ti[t].pc = "fread_word"
    /\ ti' = [ti EXCEPT ![t].pc = "fread_v", ![t].word = fread(NoItem)]
    /\ ctx' = [ctx EXCEPT !.fp = Advance]
    /\ UNCHANGED <<md, main, word2vec, ts, coreVars, npVars>>

\* fread(v,300*sizeof(float),1,ctx->fp);
InsertReadVec(t) ==
    /\ ti[t].pc = "fread_v"
    /\ ti' = [ti EXCEPT ![t].pc = "prepare", ![t].v = fread(ti[t].v)]
    /\ ctx' = [ctx EXCEPT !.fp = Advance]
    /\ UNCHANGED <<md, main, word2vec, ts, coreVars, npVars>>

\* An increment that is a separate read and write: the write of a thread
\* is lost when another thread took the same value and has not inserted yet.
InsertPrepare_NotAtomic(t) ==
    /\ ti[t].pc = "prepare"
    /\ \E taken \in { ctx.id } \cup
                     { ti[u].next_id : u \in { w \in Threads :
                                                 ti[w].pc = "try_commit" } } :
          ti' = [ti EXCEPT ![t].pc = "try_commit", ![t].next_id = taken,
                           ![t].ic = ctx.index.version]
    /\ ctx' = [ctx EXCEPT !.id = ctx.id + 1]
    /\ UNCHANGED <<md, main, word2vec, ts, coreVars, npVars>>

\* next_id = ctx->id++; ic = hnsw_prepare_insert(...);
InsertPrepare(t) ==
    /\ ti[t].pc = "prepare"
    /\ ti' = [ti EXCEPT ![t].pc = "try_commit", ![t].next_id = ctx.id,
                        ![t].ic = ctx.index.version]
    /\ ctx' = [ctx EXCEPT !.id = ctx.id + 1]
    /\ UNCHANGED <<md, main, word2vec, ts, coreVars, npVars>>

InsertTryCommit(t) ==
    /\ ti[t].pc = "try_commit"
    /\ LET r == TryCommitInsert(ctx.index, ti[t].ic, Element(t, "try_commit"))
       IN /\ ctx' = [ctx EXCEPT !.index = r.index]
          /\ ti' = [ti EXCEPT ![t].pc = AfterTryCommit(r.node)]
    /\ UNCHANGED <<md, main, word2vec, ts, coreVars, npVars>>

InsertLocked(t) ==
    /\ ti[t].pc = "hnsw_insert"
    /\ ctx' = [ctx EXCEPT !.index = Added(ctx.index, Element(t, "hnsw_insert"))]
    /\ ti' = [ti EXCEPT ![t].pc = "check"]
    /\ UNCHANGED <<md, main, word2vec, ts, coreVars, npVars>>

InsertCheck(t) ==
    /\ ti[t].pc = "check"
    /\ ti' = [ti EXCEPT ![t].pc = AfterInsert(ti[t].next_id)]
    /\ UNCHANGED <<md, main, ctx, word2vec, ts, coreVars, npVars>>

threaded_insert(t) ==
    \/ InsertLock(t) \/ InsertReadLen(t) \/ InsertUnlock(t)
    \/ InsertReadWord(t) \/ InsertReadVec(t) \/ InsertPrepare(t)
    \/ InsertTryCommit(t) \/ InsertLocked(t) \/ InsertCheck(t)

\* w2v_multi_thread up to pthread_create: the file of any length, numele
\* from the command line, every thread at the top of its loop.
InitInsertThreads ==
    /\ NoCore /\ hnsw_new /\ NoNumpy
    /\ \E n \in 0..MaxRecords : word2vec = FileOf(n)
    /\ \E n \in 1..MaxNumele :
          ctx = [FileAccessMutex |-> 0, numele |-> n, id |-> 0, fp |-> 0,
                 index |-> NoIndex]
    /\ ti = [t \in Threads |-> [NoLocals EXCEPT !.pc = "lock"]]
    /\ ts = [t \in Threads |-> NoSearch]
    /\ md = NoMassDel
    /\ main = NoMain

InsertLockStep == \E t \in Threads : InsertLock(t)
InsertReadLenStep == \E t \in Threads : InsertReadLen(t)
InsertUnlockStep == \E t \in Threads : InsertUnlock(t)
InsertReadWordStep == \E t \in Threads : InsertReadWord(t)
InsertReadVecStep == \E t \in Threads : InsertReadVec(t)
InsertPrepareStep == \E t \in Threads : InsertPrepare(t)
InsertTryCommitStep == \E t \in Threads : InsertTryCommit(t)
InsertLockedStep == \E t \in Threads : InsertLocked(t)
InsertCheckStep == \E t \in Threads : InsertCheck(t)

NextInsertThreads ==
    \/ InsertLockStep \/ InsertReadLenStep \/ InsertUnlockStep
    \/ InsertReadWordStep \/ InsertReadVecStep \/ InsertPrepareStep
    \/ InsertTryCommitStep \/ InsertLockedStep \/ InsertCheckStep

SpecInsertThreads == InitInsertThreads /\ [][NextInsertThreads]_vars

\* Every thread the scheduler can run is run: a thread that is not waiting
\* for the mutex keeps making steps.
FairInsertThreads == \A t \in Threads : WF_vars(threaded_insert(t))

SpecInsertThreadsFair == SpecInsertThreads /\ FairInsertThreads

(***************************************************************************)
(* threaded_search of src/w2v.c: after the words are loaded, the threads   *)
(* search the index until ctx->id, set to 0 before they start, reaches the *)
(* number of searches asked for.  A search only reads the graph; what the  *)
(* threads share and change is the slot array of the index and ctx->id.    *)
(***************************************************************************)
\* The number of searches of the demo: 1000000 in the source.
MaxSearches == 3

\* No search thread was created yet.
Loading == \A t \in Threads : ts[t].pc = "none"

\* The words are loaded; with --threads the index is filled by
\* threaded_insert, one hnsw_insert or commit at a time.
LoadStep == Loading /\ InsertStep

\* ctx.id = 0; pthread_create(..., threaded_search, &ctx): the last word
\* loaded is read from index->head first, so the index is not empty.
StartSearch ==
    /\ Loading
    /\ head # <<>>
    /\ ctx' = [ctx EXCEPT !.id = 0]
    /\ ts' = [t \in Threads |-> [NoSearch EXCEPT !.pc = "while"]]
    /\ UNCHANGED <<md, main, word2vec, ti, coreVars, npVars>>

OnlySlots ==
    UNCHANGED <<level, neighbors, enter_point, max_level, node_count, head,
                version, dead, freed, lock>>

\* while(ctx->id < 1000000)
SearchWhile(t) ==
    /\ ts[t].pc = "while"
    /\ ts' = [ts EXCEPT ![t].pc = IF ctx.id < MaxSearches THEN "acquire"
                                  ELSE "return"]
    /\ UNCHANGED <<md, main, word2vec, ctx, ti, coreVars, npVars>>

\* int slot = hnsw_acquire_read_slot(ctx->index);
SearchAcquire(t) ==
    /\ ts[t].pc = "acquire"
    /\ FreeSlots # {}
    /\ slots' = [slots EXCEPT ![FirstFree] = version]
    /\ ts' = [ts EXCEPT ![t].pc = "search", ![t].slot = FirstFree]
    /\ OnlySlots
    /\ UNCHANGED <<md, main, word2vec, ctx, ti, exprVars, evalVars, threadVars, npVars>>

\* found = hnsw_search(..., slot, 0);
SearchCall(t) ==
    /\ ts[t].pc = "search"
    /\ ts' = [ts EXCEPT ![t].pc = "release"]
    /\ UNCHANGED <<md, main, word2vec, ctx, ti, coreVars, npVars>>

ReleasedSlot_Other(t) == IF ts[t].slot = NumSlots THEN ts[t].slot - 1 ELSE ts[t].slot + 1

\* The slot handed to hnsw_release_read_slot.
ReleasedSlot(t) == ts[t].slot

\* hnsw_release_read_slot(ctx->index,slot);
SearchRelease(t) ==
    /\ ts[t].pc = "release"
    /\ slots' = [slots EXCEPT ![ReleasedSlot(t)] = FREE]
    /\ ts' = [ts EXCEPT ![t].pc = "count", ![t].slot = 0]
    /\ OnlySlots
    /\ UNCHANGED <<md, main, word2vec, ctx, ti, exprVars, evalVars, threadVars, npVars>>

\* last_id = ctx->id++: the thread keeps the value before its increment.
SearchCount_Stale(t) ==
    /\ ts[t].pc = "count"
    /\ ctx' = [ctx EXCEPT !.id = ctx.id + 1]
    /\ ts' = [ts EXCEPT ![t].pc = "while", ![t].last_id = ctx.id]
    /\ UNCHANGED <<md, main, word2vec, ti, coreVars, npVars>>

\* last_id = ++ctx->id;
SearchCount(t) ==
    /\ ts[t].pc = "count"
    /\ ctx' = [ctx EXCEPT !.id = ctx.id + 1]
    /\ ts' = [ts EXCEPT ![t].pc = "while", ![t].last_id = ctx.id + 1]
    /\ UNCHANGED <<md, main, word2vec, ti, coreVars, npVars>>

threaded_search(t) ==
    \/ SearchWhile(t) \/ SearchAcquire(t) \/ SearchCall(t)
    \/ SearchRelease(t) \/ SearchCount(t)

SearchWhileStep == \E t \in Threads : SearchWhile(t)
SearchAcquireStep == \E t \in Threads : SearchAcquire(t)
SearchCallStep == \E t \in Threads : SearchCall(t)
SearchReleaseStep == \E t \in Threads : SearchRelease(t)
SearchCountStep == \E t \in Threads : SearchCount(t)

NextSearchThreads ==
    \/ LoadStep \/ StartSearch
    \/ SearchWhileStep \/ SearchAcquireStep \/ SearchCallStep
    \/ SearchReleaseStep \/ SearchCountStep

SpecSearchThreads == InitGraph /\ [][NextSearchThreads]_vars

\* Every search thread is scheduled, and the threads are started.
FairSearchThreads ==
    /\ WF_vars(StartSearch)
    /\ \A t \in Threads : WF_vars(threaded_search(t))

SpecSearchThreadsFair == SpecSearchThreads /\ FairSearchThreads

(***************************************************************************)
(* The --mass-del phase of w2v_single_thread: the loop walks the live list *)
(* of the index from its head and deletes nodes until 5% are left, now and *)
(* then skipping one.  Of the index the loop reads the list and            *)
(* node_count; hnsw_delete_node unsplices the node from the list and       *)
(* counts it out.                                                          *)
(***************************************************************************)
\* The largest number of words loaded before the phase.
MaxWords == 20

remove_perc == 95

\* The live list after n words were loaded with ids 1..n: every insert
\* splices its node at the head.
LoadedList(n) == [k \in 1..n |-> n + 1 - k]

\* current->next read after the node was handed to hnsw_delete_node: the
\* loop stays on the deleted node.
NextIn_Deleted(l, n) == n

\* node->next in the live list l.
NextIn(l, n) ==
    LET k == CHOOSE x \in 1..Len(l) : l[x] = n
    IN IF k = Len(l) THEN NULL ELSE l[k + 1]

\* The list and the count after hnsw_delete_node(index, n, free).
Unspliced(l, n) == SelectSeq(l, LAMBDA x : x # n)

\* index->node_count > initial_nodes*(100-remove_perc)/100
AboveThreshold ==
    md.node_count > (md.initial_nodes * (100 - remove_perc)) \div 100

\* The node the loop stands on after the skip test: random() % remove_perc
\* is 0 or it is not.
Skipped(l, n, skip) == IF n # NULL /\ skip THEN NextIn(l, n) ELSE n

\* One turn of the while loop, or its end.
MassDelStep ==
    /\ md.pc = "while"
    /\ IF md.current # NULL /\ AboveThreshold
       THEN \E skip \in BOOLEAN :
               LET next == NextIn(md.head, md.current)
                   left == Unspliced(md.head, md.current)
               IN md' = [md EXCEPT !.head = left,
                                   !.node_count = md.node_count - 1,
                                   !.current = Skipped(left, next, skip)]
       ELSE md' = [md EXCEPT !.pc = "done"]
    /\ UNCHANGED <<main, word2vec, ctx, ti, ts, coreVars, npVars>>

\* The index as the load and the search left it: n words, and the loop
\* about to start at the head of the list.
InitMassDel ==
    /\ NoCore /\ hnsw_new /\ NoNumpy
    /\ word2vec = <<>>
    /\ ctx = [FileAccessMutex |-> 0, numele |-> 0, id |-> 0, fp |-> 0,
              index |-> NoIndex]
    /\ ti = [t \in Threads |-> NoLocals]
    /\ ts = [t \in Threads |-> NoSearch]
    /\ main = NoMain
    /\ \E n \in 0..MaxWords :
          md = [pc |-> "while", initial_nodes |-> n,
                current |-> IF n = 0 THEN NULL ELSE n,
                head |-> LoadedList(n), node_count |-> n]

NextMassDel == MassDelStep

SpecMassDel == InitMassDel /\ [][NextMassDel]_vars

(***************************************************************************)
(* main of src/w2v.c: the options are parsed from left to right, then the  *)
(* single-threaded or the multi-threaded demo runs.  The multi-threaded    *)
(* run is the insert threads above, joined before the program goes on; of  *)
(* what follows the load (searches, validation, statistics) the model      *)
(* keeps the reads of the last word loaded.                                *)
(***************************************************************************)
\* The command lines tried.
ArgLists ==
    { <<>>, <<"--quant">>, <<"--BIN">>, <<"--mass-del">>, <<"--recall">>,
      <<"--bogus">>, <<"--threads">>, <<"--numele">>, <<"--quant", "--numele">>,
      <<"--help">>, <<"--help", "--bogus">>, <<"--quant", "--bogus">>,
      <<"--threads", "1">>, <<"--threads", "2">>, <<"--threads", "--numele">>,
      <<"--numele", "1">>, <<"--numele", "0">>, <<"--numele", "2", "--mass-del">>,
      <<"--threads", "2", "--numele", "1">>,
      <<"--numele", "2", "--threads", "2">> }

\* strcasecmp compares without regard to case.
Lower(a) == IF a = "--BIN" THEN "--bin" ELSE a

strcasecmp(a, b) == IF Lower(a) = Lower(b) THEN 0 ELSE 1

\* atoi and strtoll(..., NULL, 0) on the values tried: the number a decimal
\* string writes, 0 for a string that starts with no digit.
atoi(a) == CASE a = "1" -> 1 [] a = "2" -> 2 [] OTHER -> 0

\* One turn of the for loop over argv.
ParseArg ==
    /\ main.pc = "parse"
    /\ main.j <= Len(main.argv)
    /\ LET a == main.argv[main.j]
           moreargs == Len(main.argv) - main.j
       IN main' =
            IF strcasecmp(a, "--quant") = 0
              THEN [main EXCEPT !.quantization = HNSW_QUANT_Q8, !.j = @ + 1]
            ELSE IF strcasecmp(a, "--bin") = 0
              THEN [main EXCEPT !.quantization = HNSW_QUANT_BIN, !.j = @ + 1]
            ELSE IF strcasecmp(a, "--mass-del") = 0
              THEN [main EXCEPT !.massdel = 1, !.j = @ + 1]
            ELSE IF strcasecmp(a, "--recall") = 0
              THEN [main EXCEPT !.recall = 1, !.j = @ + 1]
            ELSE IF moreargs >= 1 /\ strcasecmp(a, "--threads") = 0
              THEN [main EXCEPT !.numthreads = atoi(main.argv[main.j + 1]),
                                !.j = @ + 2]
            ELSE IF moreargs >= 1 /\ strcasecmp(a, "--numele") = 0
              THEN [main EXCEPT
                      !.numele = IF atoi(main.argv[main.j + 1]) < 1 THEN 1
                                 ELSE atoi(main.argv[main.j + 1]),
                      !.j = @ + 2]
            ELSE IF strcasecmp(a, "--help") = 0
              THEN [main EXCEPT !.pc = "exit", !.status = 0]
            ELSE [main EXCEPT !.pc = "exit", !.status = 1]
    /\ UNCHANGED <<md, word2vec, ctx, ti, ts, coreVars, npVars>>

\* The loop is over: numthreads > 0 selects w2v_multi_thread.
ParseEnd ==
    /\ main.pc = "parse"
    /\ main.j > Len(main.argv)
    /\ main' = [main EXCEPT !.pc = IF main.numthreads > 0 THEN "multi"
                                   ELSE "single"]
    /\ UNCHANGED <<md, word2vec, ctx, ti, ts, coreVars, npVars>>

\* What the program does with the last word loaded when there is none:
\* printf("%s") of a NULL word, node->value of a NULL node.  The behaviour
\* is undefined: the process is killed or goes on to return 0.
AfterLoad(loaded) == IF loaded = 0 THEN {"killed", "exit"} ELSE {"exit"}

\* w2v_single_thread: fopen, the load of at most numele words, the
\* searches, the mass deletion when asked for, return 0.
SingleThread ==
    /\ main.pc = "single"
    /\ IF main.fopen = "NULL"
       THEN /\ main' = [main EXCEPT !.pc = "exit", !.status = 1]
            /\ UNCHANGED ctx
       ELSE LET words == Len(word2vec) \div Len(Fields)
                loaded == Min(main.numele, words)
            IN /\ ctx' = [ctx EXCEPT
                            !.fp = loaded * Len(Fields),
                            !.id = loaded,
                            !.index = [added |-> [k \in 1..loaded |->
                                                    [id |-> k - 1,
                                                     word |-> Item3(k)[2],
                                                     v |-> Item3(k)[3],
                                                     by |-> "hnsw_insert"]],
                                       version |-> loaded]]
               /\ \E end \in AfterLoad(loaded) :
                     main' = [main EXCEPT !.pc = end, !.status = 0]
    /\ UNCHANGED <<md, word2vec, ti, ts, coreVars, npVars>>

\* w2v_multi_thread up to pthread_create.
MultiThreadStart ==
    /\ main.pc = "multi"
    /\ IF main.fopen = "NULL"
       THEN /\ main' = [main EXCEPT !.pc = "exit", !.status = 1]
            /\ UNCHANGED <<ctx, ti>>
       ELSE /\ main' = [main EXCEPT !.pc = "join"]
            /\ ctx' = [ctx EXCEPT !.id = 0, !.numele = main.numele]
            /\ ti' = [t \in Threads |->
                        IF t <= main.numthreads
                        THEN [NoLocals EXCEPT !.pc = "lock"] ELSE NoLocals]
    /\ UNCHANGED <<md, word2vec, ts, coreVars, npVars>>

\* pthread_join of every insert thread, and the rest of w2v_multi_thread.
MultiThreadJoin ==
    /\ main.pc = "join"
    /\ \A t \in Threads : ti[t].pc \in {"none", "return"}
    /\ \E end \in AfterLoad(Len(ctx.index.added)) :
          main' = [main EXCEPT !.pc = end, !.status = 0]
    /\ UNCHANGED <<md, word2vec, ctx, ti, ts, coreVars, npVars>>

MainStep ==
    \/ ParseArg \/ ParseEnd \/ SingleThread \/ MultiThreadStart
    \/ MultiThreadJoin

\* The process as it is started: a command line, word2vec.bin of any
\* length or not there to open.
InitMain ==
    /\ NoCore /\ hnsw_new /\ NoNumpy
    /\ \E n \in 0..MaxRecords : word2vec = FileOf(n)
    /\ ctx = [FileAccessMutex |-> 0, numele |-> 0, id |-> 0, fp |-> 0,
              index |-> NoIndex]
    /\ ti = [t \in Threads |-> NoLocals]
    /\ ts = [t \in Threads |-> NoSearch]
    /\ md = NoMassDel
    /\ \E args \in ArgLists : \E f \in {"fp", "NULL"} :
          main = [NoMain EXCEPT !.pc = "parse", !.argv = args, !.fopen = f]

NextMain == MainStep \/ NextInsertThreads

SpecMain == InitMain /\ [][NextMain]_vars

\* The process runs: main makes its next step when it can, and so does
\* every thread.
FairMain == WF_vars(MainStep) /\ FairInsertThreads

SpecMainFair == SpecMain /\ FairMain

(***************************************************************************)
(* Reading an expression as the claims write it.                           *)
(***************************************************************************)
\* The words of e: the maximal runs without a space.
RECURSIVE Words(_)
Words(e) ==
    IF e = <<>> THEN <<>>
    ELSE IF Head(e) = " " THEN Words(Tail(e))
    ELSE LET n == CHOOSE k \in 1..Len(e) :
                    /\ \A m \in 1..k : e[m] # " "
                    /\ (k = Len(e) \/ e[k + 1] = " ")
         IN <<SubSeq(e, 1, n)>> \o Words(SubSeq(e, n + 1, Len(e)))

OperandTexts == { o.text : o \in Operands }
BinOpTexts == { o.text : o \in BinOps }
OperandOf(text) == CHOOSE o \in Operands : o.text = text
BinOpOf(text) == CHOOSE o \in BinOps : o.text = text

\* expr is a p b q c: three value operands, two binary operators.
IsInfix5 ==
    /\ expr \in InfixExprs
    /\ LET w == Words(expr)
       IN /\ Len(w) = 5
          /\ w[1] \in OperandTexts /\ w[3] \in OperandTexts
          /\ w[5] \in OperandTexts
          /\ w[2] \in BinOpTexts /\ w[4] \in BinOpTexts

InfixA == OperandOf(Words(expr)[1]).item
InfixB == OperandOf(Words(expr)[3]).item
InfixC == OperandOf(Words(expr)[5]).item
InfixP == BinOpOf(Words(expr)[2]).opcode
InfixQ == BinOpOf(Words(expr)[4]).opcode

\* The precedence order the specification lists, lowest first:
\* or < and < comparisons and in < + - < * / % < **.
ListedRank(opcode) ==
    CASE opcode = EXPR_OP_OR -> 0
      [] opcode = EXPR_OP_AND -> 1
      [] opcode \in {EXPR_OP_GT, EXPR_OP_GTE, EXPR_OP_LT, EXPR_OP_LTE,
                     EXPR_OP_EQ, EXPR_OP_NEQ, EXPR_OP_IN} -> 2
      [] opcode \in {EXPR_OP_SUM, EXPR_OP_DIFF} -> 3
      [] opcode \in {EXPR_OP_MULT, EXPR_OP_DIV, EXPR_OP_MOD} -> 4
      [] opcode = EXPR_OP_POW -> 5

\* Running a postfix program on an empty stack: a value pushes one item, an
\* operator pops its arity (1 for NOT, 2 otherwise) and pushes one.  The
\* depth after the instructions k.., from depth d; -1 once a pop finds
\* fewer items than the arity.
RunArity(tok) == IF tok.opcode = EXPR_OP_NOT THEN 1 ELSE 2

RECURSIVE RunDepth(_, _, _)
RunDepth(prog, k, d) ==
    IF k > Len(prog) THEN d
    ELSE IF prog[k].token_type # EXPR_TOKEN_OP THEN RunDepth(prog, k + 1, d + 1)
    ELSE IF d < RunArity(prog[k]) THEN -1
    ELSE RunDepth(prog, k + 1, d - RunArity(prog[k]) + 1)

(***************************************************************************)
(* C1.  A returned program runs on an empty stack without ever popping     *)
(* from a stack that holds fewer items than the operator's arity, and      *)
(* leaves exactly one item; the count kept while compiling is the depth    *)
(* the program emitted so far leaves, so an expression whose program would *)
(* leave another number of items is rejected.                              *)
(***************************************************************************)
C1_StackDepth ==
    /\ Compiled => RunDepth(program, 1, 0) = 1
    /\ pc \in {"compile", "flush", "verify"} =>
          stack_items = RunDepth(program, 1, 0)

C1_Witness ==
    /\ Compiled
    /\ \E k \in 1..Len(program) :
          program[k].token_type = EXPR_TOKEN_OP
          /\ program[k].opcode = EXPR_OP_NOT
    /\ \E k \in 1..Len(program) :
          program[k].token_type = EXPR_TOKEN_OP
          /\ program[k].opcode = EXPR_OP_AND

(***************************************************************************)
(* C2.  For binary operators p, q with q listed higher than p,             *)
(* "a p b q c" compiles to a b c q p and "a q b p c" to a b q c p.         *)
(***************************************************************************)
C2_Precedence ==
    (pc = "done" /\ IsInfix5) =>
        /\ ListedRank(InfixQ) > ListedRank(InfixP) =>
              /\ Compiled
              /\ ProgramItems = <<InfixA, InfixB, InfixC,
                                  OpItem(InfixQ), OpItem(InfixP)>>
        /\ ListedRank(InfixP) > ListedRank(InfixQ) =>
              /\ Compiled
              /\ ProgramItems = <<InfixA, InfixB, OpItem(InfixP),
                                  InfixC, OpItem(InfixQ)>>

C2_Witness ==
    /\ Compiled /\ IsInfix5
    /\ InfixP = EXPR_OP_IN /\ InfixQ = EXPR_OP_POW
    /\ InfixA.t = EXPR_TOKEN_SELECTOR /\ InfixB.t = EXPR_TOKEN_STR

(***************************************************************************)
(* C3.  Two binary operators of equal precedence, neither of them **,      *)
(* group left to right: "a p b q c" compiles to a b p c q.                 *)
(***************************************************************************)
C3_LeftAssoc ==
    (pc = "done" /\ IsInfix5 /\ ListedRank(InfixP) = ListedRank(InfixQ)
     /\ InfixP # EXPR_OP_POW) =>
        /\ Compiled
        /\ ProgramItems = <<InfixA, InfixB, OpItem(InfixP),
                            InfixC, OpItem(InfixQ)>>

C3_Witness ==
    /\ Compiled /\ IsInfix5
    /\ InfixP = EXPR_OP_DIFF /\ InfixQ = EXPR_OP_SUM
    /\ ProgramItems[3] = OpItem(EXPR_OP_DIFF)

(***************************************************************************)
(* C4.  ** is right-associative: "a ** b ** c" compiles to a b c ** **.    *)
(***************************************************************************)
C4_PowRightAssoc ==
    (pc = "done" /\ IsInfix5 /\ InfixP = EXPR_OP_POW /\ InfixQ = EXPR_OP_POW)
        => /\ Compiled
           /\ ProgramItems = <<InfixA, InfixB, InfixC,
                               OpItem(EXPR_OP_POW), OpItem(EXPR_OP_POW)>>

(***************************************************************************)
(* Where the tokens lie in the expression.  A token's offset is the place  *)
(* after its last character, so token j starts at the first non-space      *)
(* character after token j-1.                                              *)
(***************************************************************************)
Tokenized ==
    /\ Len(tokens) > 0
    /\ tokens[Len(tokens)].token_type = EXPR_TOKEN_EOF

TokStart(j) ==
    exprConsumeSpaces(expr, IF j = 1 THEN 0 ELSE tokens[j - 1].offset)

\* Offset k lies in a string literal, quotes included.
InString(k) ==
    \E j \in 1..Len(tokens) :
        /\ tokens[j].token_type = EXPR_TOKEN_STR
        /\ TokStart(j) <= k /\ k < tokens[j].offset

\* The nesting depth after the characters before offset k, counting the
\* parentheses outside string literals from depth d; -1 once a ')' has no
\* '(' open.
RECURSIVE ParenDepth(_, _)
ParenDepth(k, d) ==
    IF k >= Len(expr) THEN d
    ELSE IF InString(k) THEN ParenDepth(k + 1, d)
    ELSE IF CharAt(expr, k) = "(" THEN ParenDepth(k + 1, d + 1)
    ELSE IF CharAt(expr, k) = ")"
         THEN IF d = 0 THEN -1 ELSE ParenDepth(k + 1, d - 1)
    ELSE ParenDepth(k + 1, d)

UnbalancedParens == ParenDepth(0, 0) # 0

(***************************************************************************)
(* C5.  No expression with unbalanced parentheses yields a program.        *)
(***************************************************************************)
C5_UnbalancedRejected == Compiled => ~UnbalancedParens

\* The same over the parenthesis tokens: a program is returned only if the
\* "(" and ")" tokens nest.  (This holds; C5_UnbalancedRejected fails on the
\* parentheses the selector scan takes into a selector token.)
RECURSIVE ParenTokenDepth(_, _)
ParenTokenDepth(j, d) ==
    IF j > Len(tokens) THEN d
    ELSE IF tokens[j].token_type # EXPR_TOKEN_OP THEN ParenTokenDepth(j + 1, d)
    ELSE IF tokens[j].opcode = EXPR_OP_OPAREN THEN ParenTokenDepth(j + 1, d + 1)
    ELSE IF tokens[j].opcode = EXPR_OP_CPAREN
         THEN IF d = 0 THEN -1 ELSE ParenTokenDepth(j + 1, d - 1)
    ELSE ParenTokenDepth(j + 1, d)

ParenTokensBalanced == Compiled => ParenTokenDepth(1, 0) = 0

(***************************************************************************)
(* C6.  A '-' followed by a digit, outside a string literal, starts a      *)
(* token: a number when no token precedes it or the token before it is an  *)
(* operator other than ")", the binary minus operator in every other       *)
(* place (after a number, a string, a selector or ")").                    *)
(***************************************************************************)
MinusRule(j) ==
    IF j = 1 \/ (tokens[j - 1].token_type = EXPR_TOKEN_OP
                 /\ tokens[j - 1].opcode # EXPR_OP_CPAREN)
    THEN tokens[j].token_type = EXPR_TOKEN_NUM /\ tokens[j].num <= 0
    ELSE /\ tokens[j].token_type = EXPR_TOKEN_OP
         /\ tokens[j].opcode = EXPR_OP_DIFF
         /\ tokens[j].offset = TokStart(j) + 1

MinusBeforeDigit(k) ==
    CharAt(expr, k) = "-" /\ isdigit(CharAt(expr, k + 1))

C6_MinusContext ==
    Tokenized =>
        \A k \in 0..(Len(expr) - 1) :
            (MinusBeforeDigit(k) /\ ~InString(k)) =>
                \E j \in 1..Len(tokens) : TokStart(j) = k /\ MinusRule(j)

\* The rule at the places where a token does start with such a '-'.  (This
\* holds; C6_MinusContext fails where the '-' follows a selector directly
\* and the selector scan takes it into the selector token.)
MinusRuleAtTokenStart ==
    Tokenized =>
        \A j \in 1..Len(tokens) :
            MinusBeforeDigit(TokStart(j)) => MinusRule(j)

(***************************************************************************)
(* C7.  && is the AND of "and" and || the OR of "or": "a && b" and         *)
(* "a and b" compile to the one program a b AND, "a || b" and "a or b" to  *)
(* a b OR, also with no space after && or ||, and with none before them    *)
(* after a number or a string.                                             *)
(***************************************************************************)
C7Covers(a, o, g1, g2) ==
    IF Symbolic(o)
    THEN g1 = Sp \/ a.item.t # EXPR_TOKEN_SELECTOR
    ELSE g1 = Sp /\ g2 = Sp

C8_DottedSelector ==
    /\ (pc = "done" /\ expr = DottedPath) =>
          /\ Compiled
          /\ ProgramItems = <<Item(EXPR_TOKEN_SELECTOR, 0, DottedPath, 0)>>
    /\ (pc = "done" /\ expr = DottedPathEq1) =>
          /\ Compiled
          /\ ProgramItems = <<Item(EXPR_TOKEN_SELECTOR, 0, DottedPath, 0),
                              Item(EXPR_TOKEN_NUM, 1, <<>>, 0),
                              OpItem(EXPR_OP_EQ)>>

(***************************************************************************)
(* C9.  "1 in [1,2,3]" and "'x' in [1,2,3]" compile to a program whose     *)
(* IN has one tuple value as its right operand.                            *)
(***************************************************************************)
C9_InTupleCompiles ==
    (pc = "done" /\ expr \in {OneInTuple, StrInTuple}) =>
        /\ Compiled
        /\ Len(program) = 3
        /\ program[2].token_type = EXPR_TOKEN_TUPLE
        /\ program[3].token_type = EXPR_TOKEN_OP
        /\ program[3].opcode = EXPR_OP_IN

(***************************************************************************)
(* C10.  "1 in 5" is rejected with the error offset at the 5 (offset 5).   *)
(***************************************************************************)
C10_InNeedsTuple ==
    (pc = "done" /\ expr = OneInFive) => (Rejected /\ errpos = 5)

(***************************************************************************)
(* C11.  When the tokenizer stands, after the spaces, on a character that  *)
(* is not a space, a digit, a quote, ".", a letter or an operator          *)
(* character, the compilation fails with the error offset at that          *)
(* character; when it stands on the opening quote of a string literal      *)
(* that has no closing quote, the compilation fails too.  Every failed     *)
(* compilation reports an offset from 0 to the length of the expression.   *)
(***************************************************************************)
UnknownChar(c) ==
    /\ c # NUL
    /\ ~isspace(c) /\ ~isdigit(c) /\ ~isalpha(c)
    /\ c \notin {"'", "\"", "."}
    /\ c \notin EXPR_OP_SPECIALCHARS

\* The character at offset k of the literal opened at offset q is escaped:
\* it follows a backslash of the literal that is not escaped itself.
RECURSIVE Escaped(_, _)
Escaped(q, k) ==
    k > q + 1 /\ CharAt(expr, k - 1) = "\\" /\ ~Escaped(q, k - 1)

\* The literal opened by the quote at offset q has no closing quote.
Unterminated(q) ==
    /\ CharAt(expr, q) \in {"'", "\""}
    /\ ~\E k \in (q + 1)..(Len(expr) - 1) :
          CharAt(expr, k) = CharAt(expr, q) /\ ~Escaped(q, k)

C11_SyntaxErrorOffset ==
    [][ LET q == exprConsumeSpaces(expr, p)
        IN /\ (pc = "tokenize" /\ UnknownChar(CharAt(expr, q))) =>
                 (Rejected' /\ errpos' = q)
           /\ (pc = "tokenize" /\ Unterminated(q)) => Rejected'
           /\ Rejected' => (0 <= errpos' /\ errpos' <= Len(expr)) ]_vars

C11_Witness ==
    /\ Rejected
    /\ tokens # <<>>
    /\ errpos = p
    /\ CharAt(expr, errpos) = "["

(***************************************************************************)
(* C12.  Every well-formed expression over integer literals, + - * and     *)
(* parentheses compiles, and the postfix evaluation of its program gives   *)
(* the number the expression denotes; "(5+2)*3" compiles to 5 2 + 3 *,     *)
(* which evaluates to 21.                                                  *)
(***************************************************************************)
\* Postfix evaluation from instruction k with the values on stack: the one
\* value left, or <<>> when the program is not a postfix expression of
\* numbers and + - *.
RECURSIVE PostfixRun(_, _, _)
PostfixRun(prog, k, stack) ==
    IF k > Len(prog)
    THEN IF Len(stack) = 1 THEN stack ELSE <<>>
    ELSE IF prog[k].t = EXPR_TOKEN_NUM
         THEN PostfixRun(prog, k + 1, Append(stack, prog[k].n))
    ELSE IF prog[k].t # EXPR_TOKEN_OP \/ prog[k].op \notin ArithOps
            \/ Len(stack) < 2
         THEN <<>>
    ELSE LET a == stack[Len(stack) - 1]
             b == stack[Len(stack)]
             v == CASE prog[k].op = EXPR_OP_SUM -> a + b
                    [] prog[k].op = EXPR_OP_DIFF -> a - b
                    [] prog[k].op = EXPR_OP_MULT -> a * b
         IN PostfixRun(prog, k + 1,
                       Append(SubSeq(stack, 1, Len(stack) - 2), v))

FiveTwoThree == <<"(", "5", "+", "2", ")", "*", "3">>

FiveTwoThreeProgram ==
    <<Item(EXPR_TOKEN_NUM, 5, <<>>, 0), Item(EXPR_TOKEN_NUM, 2, <<>>, 0),
      OpItem(EXPR_OP_SUM), Item(EXPR_TOKEN_NUM, 3, <<>>, 0),
      OpItem(EXPR_OP_MULT)>>

C12_ArithmeticValue ==
    pc = "done" =>
        /\ \A c \in ArithCases :
              c.text = expr =>
                  (Compiled /\ PostfixRun(ProgramItems, 1, <<>>) = <<c.val>>)
        /\ expr = FiveTwoThree =>
              /\ ProgramItems = FiveTwoThreeProgram
              /\ PostfixRun(ProgramItems, 1, <<>>) = <<21>>

C12_Witness ==
    /\ Compiled
    /\ expr = FiveTwoThree
    /\ ProgramItems = FiveTwoThreeProgram

(***************************************************************************)
(* C13.  Evaluating a compiled filter on a node's attributes gives true    *)
(* or false, never an error: false when the attributes are not valid JSON  *)
(* and when a field the filter selects is missing; and                     *)
(* ".year > 1950 and .genre == 'jazz'" is true of year 1970 with genre     *)
(* jazz, false of year 1940, false of {}.                                  *)
(***************************************************************************)
\* The keys the program selects.
SelectedKeys ==
    { Tail(ProgramItems[k].s) :
        k \in { j \in 1..Len(program) :
                  program[j].token_type = EXPR_TOKEN_SELECTOR } }

YearGenreObject(y, g) ==
    JsonObject([key \in {KeyYear, KeyGenre} |->
                   IF key = KeyYear THEN NumVal(y) ELSE StrVal(g)])

LiveNodes == Range(head)

Linked(n, m, l) == m \in neighbors[n][l]

ReachableAt(l) ==
    IF enter_point = NULL THEN {} ELSE Reach(neighbors, l, {enter_point})

\* The node inserted last is the head of the live list.
Newest == Head(head)

(***************************************************************************)
(* C14.  After any sequence of inserts and deletes, the links between live *)
(* nodes are reciprocal at every level: n has m in its level-l list if and *)
(* only if m has n in its level-l list.                                    *)
(***************************************************************************)
C14_ReciprocalLinks ==
    \A n \in LiveNodes : \A m \in LiveNodes : \A l \in Levels :
        Linked(n, m, l) <=> Linked(m, n, l)

\* Two ex-neighbors of a deleted node d are linked to each other at level
\* 0 after the delete, and the index holds links at the upper level too.
C14_Witness ==
    \E d \in Nodes : \E a \in LiveNodes : \E b \in LiveNodes :
        /\ dead[d] >= 0
        /\ {a, b} \subseteq neighbors[d][0]
        /\ Linked(a, b, 0) /\ Linked(b, a, 0)
        /\ \E x \in LiveNodes : neighbors[x][1] # {}

(***************************************************************************)
(* C15.  After any sequence of inserts and deletes, the level-l list of a  *)
(* live node has at most cap(l) entries at each of its levels l, with      *)
(* cap(0) = M0 and cap(l) = M above; neither the back-links of an insert   *)
(* nor the relinking of a delete leaves a list above its cap.              *)
(***************************************************************************)
C15_NeighborCaps ==
    /\ cap(0) = M0
    /\ \A l \in Levels \ {0} : cap(l) = M
    /\ \A n \in LiveNodes : \A l \in 0..level[n] :
          Cardinality(neighbors[n][l]) <= cap(l)

\* The node inserted last is in a level-0 list that is full, and another
\* live node that is no neighbor of its own has that list's owner as its
\* nearest node: the back-link met a full list.
C15_Witness ==
    /\ node_count = MaxNodes
    /\ \E v \in LiveNodes :
          /\ Newest \in neighbors[v][0]
          /\ Cardinality(neighbors[v][0]) = cap(0)
          /\ \E w \in LiveNodes \ ({v} \cup neighbors[v][0]) :
                Nearest(w, LiveNodes \ {w}) = v

(***************************************************************************)
(* C16.  After any sequence of inserts and deletes, every live node is     *)
(* reachable from the entry point along level-0 links, and a deleted node  *)
(* is reachable from the entry point at no level.                          *)
(***************************************************************************)
C16_Connected ==
    /\ LiveNodes \subseteq ReachableAt(0)
    /\ \A n \in Nodes : dead[n] >= 0 => \A l \in Levels : n \notin ReachableAt(l)

C18_EpochReclamation ==
    [][ /\ \A n \in freed' \ freed :
              \A k \in Slots : slots[k] = FREE \/ slots[k] > dead[n]
        /\ \A r \in Readers :
              (rslot'[r] # 0 /\ rcur'[r] # NULL) => rcur'[r] \notin freed' ]_vars

\* A node was freed while a search held a slot taken after the node died,
\* and now a second delete waits for a search that stands on the node it
\* unlinked.
C18_Witness ==
    /\ dnode # NULL
    /\ ~SlotsPast(dead[dnode])
    /\ \E r \in Readers : rslot[r] # 0 /\ rcur[r] = dnode
    /\ \E n \in freed : \E r \in Readers :
          rslot[r] # 0 /\ slots[rslot[r]] = dead[n] + 1

(***************************************************************************)
(* C19.  In every interleaving of an insert with searches, a node whose    *)
(* links are only partly installed cannot be reached: when the node being  *)
(* inserted can be found through the entry point, another node's neighbor  *)
(* list or the live list, its own lists are in place at all of its levels. *)
(***************************************************************************)
Discoverable(n) ==
    \/ enter_point = n
    \/ n \in LiveNodes
    \/ \E m \in Nodes \ {n} : \E l \in Levels : Linked(m, n, l)

\* The lists of the node of c are in place: at the levels whose back-links
\* are still to come they hold the neighbors chosen; at the levels done
\* they hold neighbors chosen, each of them linked back.
LinksInPlace(c) ==
    /\ level[c.node] = c.level
    /\ \A l \in Levels :
          IF l <= c.l
          THEN neighbors[c.node][l] = Range(c.sel[l])
          ELSE /\ neighbors[c.node][l] \subseteq Range(c.sel[l])
               /\ \A m \in Nodes \ {c.node} :
                     Linked(m, c.node, l) <=> Linked(c.node, m, l)

ObservedLive(c) ==
    \A l \in Levels : \A m \in Range(c.sel[l]) :
        m \in LiveNodes /\ dead[m] = -1 /\ level[m] >= l

C20_TryCommitConflict ==
    [][ \A t \in Threads :
          (ipc[t] = "prepared" /\ ipc'[t] # "prepared") =>
             IF version = ic[t].version
             THEN /\ ObservedLive(ic[t])
                  /\ ipc'[t] = "commit" /\ lock = 0 /\ lock' = t
             ELSE /\ ipc'[t] = "fallback" /\ lock' = 0
                  /\ UNCHANGED <<level, neighbors, enter_point, max_level,
                                 node_count, head, version, dead>> ]_vars

\* A conflict was reported: a neighbor the prepare observed was deleted
\* before the commit was tried.
C20_Witness ==
    \E t \in Threads :
        /\ ipc[t] = "fallback"
        /\ version # ic[t].version
        /\ \E l \in Levels : \E m \in Range(ic[t].sel[l]) : dead[m] >= 0

(***************************************************************************)
(* C29.  Only well-formed infix expressions are accepted: an expression in *)
(* which two values stand with no binary operator between them, or a       *)
(* binary operator stands with no value on one of its sides (such as       *)
(* "1 2 +" or "+ 1 2"), is rejected.                                       *)
(***************************************************************************)
IsValueToken(j) ==
    tokens[j].token_type \in
        { EXPR_TOKEN_NUM, EXPR_TOKEN_STR, EXPR_TOKEN_TUPLE, EXPR_TOKEN_SELECTOR }

IsOpToken(j, code) ==
    tokens[j].token_type = EXPR_TOKEN_OP /\ tokens[j].opcode = code

IsBinaryToken(j) ==
    /\ tokens[j].token_type = EXPR_TOKEN_OP
    /\ exprGetOpArity(tokens[j].opcode) = 2

\* Token j ends an operand; token j begins one.
EndsOperand(j) == IsValueToken(j) \/ IsOpToken(j, EXPR_OP_CPAREN)

BeginsOperand(j) ==
    IsValueToken(j) \/ IsOpToken(j, EXPR_OP_OPAREN) \/ IsOpToken(j, EXPR_OP_NOT)

AdjacentValues ==
    \E j \in 1..(Len(tokens) - 1) : IsValueToken(j) /\ IsValueToken(j + 1)

BinaryMissingSide ==
    \E j \in 1..Len(tokens) :
        /\ IsBinaryToken(j)
        /\ \/ j = 1
           \/ ~EndsOperand(j - 1)
           \/ ~BeginsOperand(j + 1)

C29_InfixOnly ==
    (pc = "done" /\ Tokenized /\ (AdjacentValues \/ BinaryMissingSide))
        => Rejected

(***************************************************************************)
(* C30.  A prefix "!" or "not" applies to an operand that itself starts    *)
(* with "!" or "not": "! ! 1" and "not not 1" compile to 1 NOT NOT, as     *)
(* "not (not 1)" does.                                                     *)
(***************************************************************************)
OneNotNot ==
    <<Item(EXPR_TOKEN_NUM, 1, <<>>, 0), OpItem(EXPR_OP_NOT), OpItem(EXPR_OP_NOT)>>

C30_NotOfNot ==
    (pc = "done" /\ expr \in {BangBangOne, NotNotOne, NotParenNotOne})
        => (Compiled /\ ProgramItems = OneNotNot)

(***************************************************************************)
(* C26.  In any sequence of NP.SET and NP.GET commands, NP.GET key replies *)
(* with exactly the bytes (same length, same content) given to the most    *)
(* recent NP.SET on that key, and with Null, changing no stored value,     *)
(* when the key was never set.                                             *)
(***************************************************************************)
C26_GetReturnsLastSet ==
    [][ np_cmd'.name = "NP.GET" =>
          /\ np_store' = np_store
          /\ LET given == np_sent[np_cmd'.key]
             IN IF given.set
                THEN /\ np_reply'.t = "bulk"
                     /\ Len(np_reply'.data) = Len(given.val)
                     /\ np_reply'.data = given.val
                ELSE np_reply' = Null ]_vars

\* NP.GET answered with a blob that has a zero byte before its last byte,
\* while the other key was never set.
C26_Witness ==
    /\ np_cmd = [name |-> "NP.GET", key |-> "arr1"]
    /\ np_reply = ReplyWithStringBuffer(<<0, 65>>, 2)
    /\ ~np_sent["arr2"].set

(***************************************************************************)
(* The insert threads of the demo.                                         *)
(***************************************************************************)
\* Thread t has read a record: it is between its three freads and the end
\* of the loop body.
HasRecord(t) ==
    ti[t].pc \in {"prepare", "try_commit", "hnsw_insert", "check"}

\* The entries of the index that carry id i.
EntriesOf(n) ==
    { k \in 1..Len(ctx.index.added) : ctx.index.added[k].id = n }

\* C28: the length, the word and the vector a thread holds after its three
\* freads are the three fields of one record of the file, which is what
\* reading a record with no read of another thread in between gives.
C28_RecordReadAtomic ==
    \A t \in Threads :
        HasRecord(t) =>
            /\ ti[t].wlen.field = "wlen"
            /\ ti[t].word = [rec |-> ti[t].wlen.rec, field |-> "word"]
            /\ ti[t].v = [rec |-> ti[t].wlen.rec, field |-> "v"]

\* C27: whatever the length of the file, every insert thread returns from
\* threaded_insert, so none waits for FileAccessMutex forever.
C27_InsertThreadsTerminate ==
    <>(\A t \in Threads : ti[t].pc = "return")

\* C23: the index never holds more than numele elements while the insert
\* threads run.
C23_NumeleCap == Len(ctx.index.added) <= ctx.numele

\* C21: a record is added by the locked hnsw_insert exactly when the
\* optimistic commit of that record returned NULL, and the index then holds
\* the id once, with the word and the vector the thread read: a thread
\* between its prepare and its insert has its id in the index not at all,
\* a thread past them has it there once, and no id is there twice.
C21_AddedExactlyOnce ==
    /\ \A t \in Threads :
          /\ ti[t].pc \in {"try_commit", "hnsw_insert"} =>
                EntriesOf(ti[t].next_id) = {}
          /\ ti[t].pc = "check" =>
                /\ Cardinality(EntriesOf(ti[t].next_id)) = 1
                /\ \A k \in EntriesOf(ti[t].next_id) :
                      /\ ctx.index.added[k].word = ti[t].word
                      /\ ctx.index.added[k].v = ti[t].v
    /\ \A n \in 0..ctx.id : Cardinality(EntriesOf(n)) <= 1
    /\ Len(ctx.index.added) =
          ctx.id - Cardinality({ t \in Threads :
                                   ti[t].pc \in {"try_commit", "hnsw_insert"} })

\* Both ways of adding happened: one record went in by the optimistic
\* commit, another by the locked insert after its commit returned NULL,
\* and the thread of the latter is past its insert.
C21_Witness ==
    /\ \E k \in 1..Len(ctx.index.added) :
          ctx.index.added[k].by = "try_commit"
    /\ \E t \in Threads :
          /\ ti[t].pc = "check"
          /\ \E k \in EntriesOf(ti[t].next_id) :
                ctx.index.added[k].by = "hnsw_insert"

(***************************************************************************)
(* The search threads of the demo.                                         *)
(***************************************************************************)
\* Thread t is between its acquire and its release.
Holding(t) == ts[t].pc \in {"search", "release"}

OccupiedSlots == { k \in Slots : slots[k] # FREE }

\* The slots are the ones the threads hold: a thread between its acquire
\* and its release holds one occupied slot, any other thread none, two
\* threads never the same, and no slot is occupied that no thread holds.
SlotsHeldByThreads ==
    /\ \A t \in Threads :
          IF Holding(t) THEN ts[t].slot \in OccupiedSlots ELSE ts[t].slot = 0
    /\ \A t, u \in Threads : (t # u /\ Holding(t) /\ Holding(u)) =>
          ts[t].slot # ts[u].slot
    /\ OccupiedSlots = { ts[t].slot : t \in { u \in Threads : Holding(u) } }

\* A step that takes a slot from a thread is its release, made after the
\* search returned, and it frees that very slot; a step that gives a thread
\* a slot finds the thread holding none.
ReleaseOfSameSlot ==
    \A t \in Threads :
        /\ (ts[t].slot # 0 /\ ts'[t].slot # ts[t].slot) =>
              /\ ts[t].pc = "release"
              /\ ts'[t].slot = 0
              /\ slots'[ts[t].slot] = FREE
              /\ \A k \in Slots \ {ts[t].slot} : slots'[k] = slots[k]
        /\ (ts[t].slot = 0 /\ ts'[t].slot # 0) =>
              /\ ts[t].pc = "acquire"
              /\ slots[ts'[t].slot] = FREE

\* C22: in threaded_search every acquired slot is released once, the same
\* slot, after the search returned and before the next acquire; a thread
\* holds one slot at most, none when it returns, and every thread that
\* took a slot gives it back, so that all slots are free once the threads
\* have returned.
C22_SlotsReleased ==
    /\ [](SlotsHeldByThreads)
    /\ [][ReleaseOfSameSlot]_vars
    /\ []((\A t \in Threads : ts[t].pc = "return") => OccupiedSlots = {})
    /\ \A t \in Threads : Holding(t) ~> (ts[t].pc = "return")

\* Both threads hold a slot at once, after searches of their own: one is
\* about to release its slot while the other searches with a slot before
\* it in the array.
C22_Witness ==
    /\ ts[1].pc = "release" /\ ts[1].last_id > 0
    /\ ts[2].pc = "search" /\ ts[2].last_id > 0
    /\ ts[2].slot > 0 /\ ts[2].slot < ts[1].slot

(***************************************************************************)
(* The mass deletion of the demo.                                          *)
(***************************************************************************)
\* C24: when the --mass-del loop has ended, node_count is
\* initial_nodes*5/100 in integer division, whatever the skips were.
C24_MassDelLeavesFivePercent ==
    md.pc = "done" => md.node_count = (md.initial_nodes * 5) \div 100

(***************************************************************************)
(* The exit status of the demo.                                            *)
(***************************************************************************)
Flags == {"--quant", "--bin", "--mass-del", "--recall", "--help"}

Valued == {"--threads", "--numele"}

\* Some argument of args is not a recognised option: it is no flag and no
\* option with its value, as when --threads or --numele comes last.
RECURSIVE Unrecognised(_)
Unrecognised(args) ==
    IF args = <<>> THEN FALSE
    ELSE IF Lower(Head(args)) \in Flags THEN Unrecognised(Tail(args))
    ELSE IF Lower(Head(args)) \in Valued /\ Len(args) >= 2
         THEN Unrecognised(Tail(Tail(args)))
    ELSE TRUE

\* The program is asked for its usage only.
HelpAsked == \E k \in 1..Len(main.argv) : Lower(main.argv[k]) = "--help"

\* An argument is not recognised, or the demo is to run and cannot open its
\* file.
MustFail ==
    Unrecognised(main.argv) \/ (main.fopen = "NULL" /\ ~HelpAsked)

\* C25: the demo exits with status 1 when an argument is not a recognised
\* option or word2vec.bin cannot be opened, then without having read the
\* file or added to the index; in every other case it exits with status 0.
C25_ExitStatus ==
    /\ [](main.pc = "exit" =>
            IF MustFail
            THEN main.status = 1 /\ ctx.fp = 0 /\ ctx.index.added = <<>>
            ELSE main.status = 0)
    /\ [](main.pc # "killed")
    /\ <>(main.pc = "exit")

(***************************************************************************)
(* The tokens of an expression.                                            *)
(***************************************************************************)
TokenItems == [k \in 1..Len(tokens) |-> ItemOf(expr, tokens[k])]

YearSelector == Item(EXPR_TOKEN_SELECTOR, 0, <<".", "y", "e", "a", "r">>, 0)

\* C31: .year>1950 gives the tokens and the program of .year > 1950: the
\* selector .year, the operator >, the number 1950, and the program
\* .year 1950 >.
C31_SelectorEndsAtName ==
    (pc = "done" /\ expr \in {YearGt1950, YearGt1950Spaced}) =>
        /\ Compiled
        /\ TokenItems = << YearSelector, OpItem(EXPR_OP_GT),
                           Item(EXPR_TOKEN_NUM, 1950, <<>>, 0),
                           Item(EXPR_TOKEN_EOF, 0, <<>>, 0) >>
        /\ ProgramItems = << YearSelector, Item(EXPR_TOKEN_NUM, 1950, <<>>, 0),
                             OpItem(EXPR_OP_GT) >>

(***************************************************************************)
(* The program against the tokens.                                         *)
(***************************************************************************)
IsValue(tok) ==
    tok.token_type \in {EXPR_TOKEN_NUM, EXPR_TOKEN_STR, EXPR_TOKEN_SELECTOR}

IsParen(tok) ==
    tok.token_type = EXPR_TOKEN_OP
    /\ tok.opcode \in {EXPR_OP_OPAREN, EXPR_OP_CPAREN}

IsOperator(tok) == tok.token_type = EXPR_TOKEN_OP /\ ~IsParen(tok)

\* How often the token tok stands in the sequence toks.
Times(toks, tok) == Cardinality({ k \in 1..Len(toks) : toks[k] = tok })

\* C32: the program of an accepted expression holds the value tokens of the
\* expression in their order, each once, every operator token that is no
\* parenthesis once, no parenthesis and no end-of-input token, and the
\* operator stack is empty.
C32_ProgramHoldsTokens ==
    Compiled =>
        /\ SelectSeq(program, IsValue) = SelectSeq(tokens, IsValue)
        /\ \A k \in 1..Len(tokens) :
              Times(program, tokens[k]) =
                 IF IsValue(tokens[k]) \/ IsOperator(tokens[k])
                 THEN Times(tokens, tokens[k]) ELSE 0
        /\ \A k \in 1..Len(program) : Times(tokens, program[k]) = 1
        /\ ops_stack = <<>>

\* An accepted expression with parentheses, two values and an operator.
C32_Witness ==
    /\ Compiled
    /\ \E k \in 1..Len(tokens) : IsParen(tokens[k])
    /\ Len(SelectSeq(program, IsValue)) >= 2
    /\ \E k \in 1..Len(program) : IsOperator(program[k])

(***************************************************************************)
(* Operators one after the other.                                          *)
(***************************************************************************)
\* The operator names, each with its opcode.
OperatorNames ==
    { [name |-> SubSeq(ExprOptable[j].opname, 1, ExprOptable[j].oplen),
       opcode |-> ExprOptable[j].opcode] : j \in 1..Len(ExprOptable) }

\* The names that are prefixes of the text of e from offset off on.
NamesAt(e, off) ==
    { o \in OperatorNames :
        \A k \in 1..Len(o.name) : CharAt(e, off + k - 1) = o.name[k] }

Longest(names) == CHOOSE o \in names : \A x \in names : Len(x.name) <= Len(o.name)

\* The tokenizer has just added a token of type type.
Tokenizes(type) ==
    /\ pc = "tokenize"
    /\ Len(tokens') = Len(tokens) + 1
    /\ tokens'[Len(tokens')].token_type = type

\* C33: where operator names are prefixes of the text at the tokenizer's
\* position (and the text is not a negative number), the token is the
\* operator of the longest such name and the position moves by the length
\* of that name only, so that what follows it is tokenized on its own.
C33_LongestOperator ==
    [][ LET q == exprConsumeSpaces(expr, p)
            names == NamesAt(expr, q)
        IN (pc = "tokenize" /\ names # {} /\ ~Tokenizes(EXPR_TOKEN_NUM)) =>
              /\ Tokenizes(EXPR_TOKEN_OP)
              /\ tokens'[Len(tokens')].opcode = Longest(names).opcode
              /\ p' = q + Len(Longest(names).name) ]_vars

\* 5>=- is tokenized to the number, >= and the operator -.
C33_Witness ==
    /\ expr = <<"5", ">", "=", "-">>
    /\ Len(tokens) >= 3
    /\ tokens[2].token_type = EXPR_TOKEN_OP /\ tokens[2].opcode = EXPR_OP_GTE
    /\ tokens[3].token_type = EXPR_TOKEN_OP /\ tokens[3].opcode = EXPR_OP_DIFF

(***************************************************************************)
(* String literals.                                                        *)
(***************************************************************************)
\* The offsets at which the literal opened at offset q can end: the quotes
\* of the kind that opened it which are not escaped.
ClosingQuotes(q) ==
    { k \in (q + 1)..(Len(expr) - 1) :
        CharAt(expr, k) = CharAt(expr, q) /\ ~Escaped(q, k) }

First(offsets) == CHOOSE k \in offsets : \A x \in offsets : k <= x

\* C34: a string literal ends at the first unescaped quote of the kind that
\* opened it; its token spans what stands between the two quotes, the other
\* quote character and escaped characters included; with no such quote the
\* compile fails with a syntax error.
C34_StringLiteral ==
    [][ LET q == exprConsumeSpaces(expr, p)
            closing == ClosingQuotes(q)
        IN (pc = "tokenize" /\ CharAt(expr, q) \in {"'", "\""}) =>
              IF closing = {}
              THEN pc' = "done" /\ ret' = "NULL" /\ syntax_error' > 0
              ELSE /\ Tokenizes(EXPR_TOKEN_STR)
                   /\ tokens'[Len(tokens')].start = q + 1
                   /\ tokens'[Len(tokens')].len = First(closing) - (q + 1)
                   /\ p' = First(closing) + 1 ]_vars

\* '\'' compiles to the string of the two characters \ and '.
C34_Witness ==
    /\ expr = <<"'", "\\", "'", "'">>
    /\ Compiled
    /\ ProgramItems = << Item(EXPR_TOKEN_STR, 0, <<"\\", "'">>, 0) >>

(***************************************************************************)
(* Termination of exprCompile.                                             *)
(***************************************************************************)
\* C35: exprCompile returns on every input: a turn of the tokenizer loop
\* moves the position forward, produces the end-of-input token or stops
\* with a syntax error; a turn of the compile loop goes to the next token
\* or leaves the loop; a turn of the flush loop takes an operator off the
\* stack or leaves the loop.
C35_CompileTerminates ==
    /\ [][ pc = "tokenize" =>
             \/ p' > p
             \/ pc' = "compile"
                /\ tokens'[Len(tokens')].token_type = EXPR_TOKEN_EOF
             \/ Rejected' /\ syntax_error' > 0 ]_vars
    /\ [][ pc = "compile" =>
             (i' = i + 1 \/ pc' = "flush" \/ Rejected') ]_vars
    /\ [][ pc = "flush" =>
             (Len(ops_stack') = Len(ops_stack) - 1 \/ pc' = "verify") ]_vars
    /\ <>(pc = "done")

\* A compilation that went through all three loops more than once: three
\* tokens read, values and an operator compiled, an operator flushed.
C35_Witness ==
    /\ Compiled
    /\ Len(tokens) >= 4
    /\ \E k \in 1..Len(program) : IsOperator(program[k])

(***************************************************************************)
(* The ids of the insert threads.                                          *)
(***************************************************************************)
\* The threads that took an id and have not added its record yet.
Inserting == { t \in Threads : ti[t].pc \in {"try_commit", "hnsw_insert"} }

\* The ids used so far: those in the index and those taken by a thread
\* that is about to insert.
IdsUsed ==
    { ctx.index.added[k].id : k \in 1..Len(ctx.index.added) }
    \cup { ti[t].next_id : t \in Inserting }

\* C36: in every interleaving of the insert threads no two insertions use
\* the same id: no two records of the index have the same id, no two
\* threads about to insert hold the same id, no such thread holds an id
\* that is in the index, and the ids used are exactly 0..ctx.id - 1, one
\* for each post-increment of the counter.
C36_IdsDistinct ==
    /\ \A j, k \in 1..Len(ctx.index.added) :
          ctx.index.added[j].id = ctx.index.added[k].id => j = k
    /\ \A t, u \in Inserting : ti[t].next_id = ti[u].next_id => t = u
    /\ \A t \in Inserting : EntriesOf(ti[t].next_id) = {}
    /\ IdsUsed = 0..(ctx.id - 1)
    /\ Cardinality(IdsUsed) = Len(ctx.index.added) + Cardinality(Inserting)

\* Two threads took their ids one after the other before either inserted,
\* and both records are now in the index, from different threads' reads.
C36_Witness ==
    /\ \A t \in Threads : ti[t].pc = "check"
    /\ Len(ctx.index.added) >= 2
    /\ \E t, u \in Threads :
          /\ t # u
          /\ ti[t].next_id # ti[u].next_id
          /\ ti[t].ic = ti[u].ic

(***************************************************************************)
(* The count of the search threads.                                        *)
(***************************************************************************)
\* The search threads were created.
Searching == \A t \in Threads : ts[t].pc # "none"

\* Every search thread returned.
Searched == \A t \in Threads : ts[t].pc = "return"

\* The threads whose last search was the one that reached the stop count.
LastSearchers == { t \in Threads : ts[t].last_id = MaxSearches }

\* C37: with the search threads of Threads and the stop count MaxSearches,
\* once the threads are created every one of them returns; when all have
\* returned the number of searches done, ctx.id, is at least the stop count
\* and at most the stop count plus the number of threads minus one, and
\* exactly one thread has last_id equal to the stop count.
C37_SearchesCounted ==
    /\ Searching ~> Searched
    /\ [](Searched =>
            /\ ctx.id >= MaxSearches
            /\ ctx.id <= MaxSearches + Cardinality(Threads) - 1
            /\ Cardinality(LastSearchers) = 1)

\* Every thread returned and the count passed the stop count by as much as
\* it can: each other thread was already in its loop when the stop count
\* was reached.
C37_Witness ==
    /\ Searched
    /\ ctx.id = MaxSearches + Cardinality(Threads) - 1
    /\ Cardinality(LastSearchers) = 1

(***************************************************************************)
(* The traversal of the mass deletion.                                     *)
(***************************************************************************)
\* The nodes of the live list.
LiveList == Range(md.head)

\* initial_nodes*5/100
Threshold == (md.initial_nodes * 5) \div 100

\* C38: the mass-deletion loop never stands on a deleted node and never
\* deletes a node twice: the node it stands on is NULL or in the live list,
\* each turn deletes a node that was live, exactly that node leaves the
\* list, the node the loop moves to (with or without the skip) is NULL or
\* still live, node_count is the length of the live list, it never drops
\* below initial_nodes*5/100, and the loop ends only with the list
\* exhausted or the threshold reached.
C38_TraversalOnLiveNodes ==
    /\ [](md.pc # "none" =>
            /\ md.current # NULL => md.current \in LiveList
            /\ md.node_count = Len(md.head)
            /\ Cardinality(LiveList) = Len(md.head)
            /\ md.node_count >= Threshold
            /\ md.pc = "done" =>
                  md.current = NULL \/ md.node_count = Threshold)
    /\ [][md.pc = "while" /\ md'.pc = "while" =>
            /\ md.current \in LiveList
            /\ Range(md'.head) = LiveList \ { md.current }
            /\ md'.node_count = md.node_count - 1
            /\ md'.current # NULL => md'.current \in Range(md'.head)]_vars

\* The loop ended on the threshold, not on the end of the list: it stands
\* on a live node, after turns that skipped a node, which is still in the
\* list behind it.
C38_Witness ==
    /\ md.pc = "done"
    /\ Threshold > 0
    /\ md.node_count = Threshold
    /\ md.current # NULL
    /\ md.current \in LiveList

====
